---- MODULE Spec2Model ----
(***************************************************************************)
(* shellRelay client: the delivery queue, the response scheduler and the   *)
(* state reconciler of src/client, as state machines.                      *)
(*                                                                         *)
(* Strings are sequences of one-character strings, so that substring       *)
(* search, case folding and formatting are computed, not assumed.          *)
(***************************************************************************)
EXTENDS Integers, Sequences, FiniteSets, TLC

\* ------------------------------------------------------------------ bounds
\* Reply requests made in one behaviour.
MaxRequests == 2
\* sync_from_tables calls made in one behaviour of the reconciler specification.
MaxReconciliations == 3
\* Reconciliations of the human connection in the race specification.
MaxRaceReconciliations == 2
\* Rows of the server's message table in the race specification.
MaxRaceMessages == 1
\* Rows of the server's message table in the chain specification.
MaxChainMessages == 5
\* Reply requests in the history specification.
MaxHistoryRequests == 7
\* Worker threads running at the same time in the history specification.
MaxHistoryWorkers == 2
\* Characters typed into the input buffer in the keyboard specification.
MaxInputLen == 2
\* Seconds the clock runs for in the proactive specification.
MaxClock == 20
\* Rows of the server's message table in the proactive specification.
MaxProactiveMessages == 1
\* Reply requests in the proactive specification.
MaxProactiveRequests == 1
\* Reply requests in the liveness specification of the delivery.
MaxLiveRequests == 2
\* Rows of the server's message table in the specification of skipped messages.
MaxSkipMessages == 2
\* Reconciliations in the specification of skipped messages.
MaxSkipReconciliations == 4
\* Reply requests and chat messages, counted together, in the specification of
\* the bots' connection state.
MaxFrameEvents == 1
\* Seconds the clock runs for in the specification of repeated dispatches.
MaxDispatchClock == 36
\* Reply requests, and length of the service's answers, in the specification
\* of the answers.
MaxAnswerRequests == 2
MaxResponseLen == 2
\* Entries short of the cap the log starts with, reconciliations and reply
\* requests in the specification of the full log.
MaxCapMargin == 2
MaxCapReconciliations == 3
MaxCapRequests == 1
\* Largest count given to generate_bot_profiles.
MaxProfileCount == 37
\* Connections of one identity at a time, and rows of the message table, in
\* the server specification.
MaxConnections == 2
MaxServerMessages == 2
\* Message rows and cache reconciliations in the specification of the room.
MaxRoomMessages == 2
MaxRoomReconciliations == 3

\* Message rows and cache reconciliations in the specification of the
\* long chains in the room.
MaxRunawayMessages == 5
MaxRunawayReconciliations == 7

\* Reply requests in the specification of the delivery to the server.
MaxEndRequests == 2

\* Reply requests in the specification of the state mutex.
MaxLockRequests == 2
\* Length of the identity strings given to short_identity.
MaxIdentityLen == 24
\* Length of the texts given to truncate_for_context, and the largest max_chars.
MaxTextLen == 3
\* Length of the short texts given to normalize_reply.
MaxReplyLen == 4
\* The long texts given to normalize_reply have up to MAX_REPLY_CHARS plus
\* this many characters.
MaxReplyExcess == 3
\* Remote messages in the timeline given to build_prompt_context.
MaxContextInput == 24

\* --------------------------------------------------------- program constants
AI_BOT_COUNT == 3
MAX_AI_CHAIN_MESSAGES == 5
MAX_SYSTEM_MESSAGES == 200
MAX_HISTORY_ENTRIES == 12
\* sync.rs sets 10^18; TLC's integers are 32 bits wide, so the base is scaled to
\* 10^9: still far above every remote id of the model.
SYSTEM_MESSAGE_ID_BASE == 1000000000
AI_PROACTIVE_COOLDOWN_SECS == 18
AI_PROACTIVE_IDLE_SECS == 8
MAX_CONTEXT_MESSAGES == 16
MAX_CONTEXT_MESSAGE_LEN == 320
MAX_REPLY_CHARS == 220

\* ------------------------------------------------------------------ strings
None == <<"<none>">>

Rep(c, n) == [i \in 1..n |-> c]

\* str::to_lowercase, on the alphabet the model's texts are written in.
LowerChar(c) ==
    CASE c = "K" -> "k"
      [] c = "O" -> "o"
      [] c = "N" -> "n"
      [] c = "A" -> "a"
      [] c = "E" -> "e"
      [] c = "L" -> "l"
      [] c = "R" -> "r"
      [] c = "I" -> "i"
      [] c = "S" -> "s"
      [] OTHER -> c

to_lowercase(s) == [i \in 1..Len(s) |-> LowerChar(s[i])]

\* str::contains: pat occurs in s as a contiguous substring.
contains(s, pat) ==
    \E i \in 1..(Len(s) - Len(pat) + 1) : SubSeq(s, i, i + Len(pat) - 1) = pat

IsWhitespace(c) == c \in {" ", "\n", "\t"}

\* text.trim().is_empty()
trim_is_empty(s) == \A i \in 1..Len(s) : IsWhitespace(s[i])

\* ------------------------------------------------------------------ bots
Bots == 1..AI_BOT_COUNT

\* One outcome of generate_bot_profiles(AI_BOT_COUNT): distinct pool names.
ProfileName(b) ==
    CASE b = 1 -> <<"K", "a", "e", "l">>
      [] b = 2 -> <<"O", "r", "i", "n">>
      [] OTHER -> <<"N", "i", "m", "u", "e">>

BotNames == {ProfileName(b) : b \in Bots}

\* The identity the server hands to bot b's connection (a hex string).
BotIdentity(b) ==
    (CASE b = 1 -> <<"b", "1">> [] b = 2 -> <<"b", "2">> [] OTHER -> <<"b", "3">>)
        \o Rep("0", 18)

VARIABLES
    \* AiBotRuntime, per bot
    online,               \* Arc<AtomicBool>
    identity,             \* Arc<Mutex<Option<String>>>
    conn_pc,              \* where the bot connection's lifecycle callbacks stand
    \* reply pipeline
    next_request,         \* number of request_bot_reply calls made so far
    workers,              \* spawned generation threads still inside the service call
    ai_histories,         \* AppState.ai_histories: bot name -> history entries
    ai_reply_rx,          \* the mpsc channel, oldest first
    \* run_app locals
    pending_ai_replies,   \* HashMap<String, VecDeque<String>>
    initialized_seen,
    last_seen_message_id,
    consecutive_ai_messages,
    loop_pc,              \* "top", or "messages" inside `for message in new_messages`
    bot_identities,       \* current_bot_identity_set, as taken at the top of the iteration
    online_human_identities,
    new_messages,         \* the messages the for loop has still to visit
    \* the server's message table, and whether the subscription was applied
    remote_message,
    subscribed,
    \* the connection's client cache of the remote tables (ctx.db)
    db_user,              \* set of User rows
    db_message,           \* Message rows, in id order
    \* UiState
    ui_users,
    users_presence_initialized,
    users_scroll,
    ui_messages,
    system_messages,
    next_system_message_id,
    \* observations
    enqueued,             \* per bot name, every text pushed on its queue, in order
    accepted,             \* per bot, every text its connection's send_message accepted
    send_log,             \* the send_message calls of the latest drain, in order
    reconciled,           \* number of sync_from_tables calls so far
    decision,             \* what the scheduler did with the message it visited last
    preexisting,          \* ids in the server's table when the first iteration ran
    now,                  \* the monotonic clock, in seconds since the loop started
    last_chat_activity,   \* run_app local, an Instant
    last_proactive_attempt, \* run_app local, an Instant
    proactive,            \* the last dispatch of maybe_start_proactive_ai_chat
    screen,               \* ui.screen
    popup,                \* ui.popup
    menu_selected,        \* ui.menu_selected
    input,                \* ui.input
    should_quit,          \* ui.should_quit
    status,               \* AppState.status
    poisoned,             \* the mutex of the shared state is poisoned
    panicked,             \* the main thread has panicked
    call,                 \* the last call of a text function: its input and result
    state_lock,           \* the thread inside a critical section of the state mutex
    threads,              \* the spawned threads, step by step: where each one stands
    main_call,            \* the request_bot_reply call the main thread is inside
    server_user,          \* the server's user table
    connections,          \* per identity, its connections to the server
    named,                \* identities that set a name since they last connected
    chance_replies,       \* requests made for bot messages without a mention, since
                          \* the last human message that counted
    visited,              \* ids of the messages the scheduler went through, in order
    executed              \* per bot, how many of its send_message calls the server took

botVars == <<online, identity, conn_pc>>
pipeVars == <<next_request, workers, ai_histories, ai_reply_rx>>
queueVars == <<pending_ai_replies, enqueued, accepted, send_log>>
sysVars == <<ui_messages, system_messages, next_system_message_id>>
syncVars == <<remote_message, subscribed, db_user, db_message, ui_users,
              users_presence_initialized, users_scroll, reconciled>>
schedVars == <<initialized_seen, last_seen_message_id, consecutive_ai_messages, loop_pc,
               bot_identities, online_human_identities, new_messages, decision,
               preexisting>>
clockVars == <<now, last_chat_activity, last_proactive_attempt, proactive>>
uiVars == <<screen, popup, menu_selected, input, should_quit, status, poisoned, panicked>>
textVars == <<call>>
lockVars == <<state_lock, threads, main_call>>
serverVars == <<server_user, connections, named>>
observerVars == <<chance_replies, visited>>
wireVars == <<executed>>
auxVars == <<clockVars, uiVars, textVars, lockVars, serverVars, observerVars, wireVars>>
vars == <<botVars, pipeVars, queueVars, sysVars, syncVars, schedVars, auxVars>>

\* ------------------------------------------------------- small helpers
Min(a, b) == IF a < b THEN a ELSE b
Max(a, b) == IF a > b THEN a ELSE b

Range(f) == {f[i] : i \in DOMAIN f}
InSeq(x, s) == \E i \in 1..Len(s) : s[i] = x
IsPrefix(p, s) == Len(p) <= Len(s) /\ SubSeq(s, 1, Len(p)) = p
TextsOf(ms) == [i \in 1..Len(ms) |-> ms[i].text]

RECURSIVE SeqToBagCount(_, _)
SeqToBagCount(s, x) ==
    IF s = <<>> THEN 0
    ELSE (IF Head(s) = x THEN 1 ELSE 0) + SeqToBagCount(Tail(s), x)

\* Vec::sort_by_key(|m| m.id): a stable sort.  SortSeq is an insertion sort
\* that moves an element only past strictly greater ones, so messages with
\* equal ids keep their order.
SortById(ms) == SortSeq(ms, LAMBDA a, b : a.id < b.id)

FilterRemote(ms) == SelectSeq(ms, LAMBDA m : m.id < SYSTEM_MESSAGE_ID_BASE)

SystemSender == <<"S", "y", "s", "t", "e", "m">>

\* ------------------------------------------------ local system messages
\* Mutant: the entries beyond the cap are cut at the end of the log.
CapSystemMessagesDropNewest(log) ==
    IF Len(log) > MAX_SYSTEM_MESSAGES
    THEN SubSeq(log, 1, MAX_SYSTEM_MESSAGES)
    ELSE log

\* Vec::drain(0..to_drop) once the log is longer than MAX_SYSTEM_MESSAGES.
CapSystemMessages(log) ==
    IF Len(log) > MAX_SYSTEM_MESSAGES
    THEN SubSeq(log, Len(log) - MAX_SYSTEM_MESSAGES + 1, Len(log))
    ELSE log

\* Mutant: the log is put in front of the remote messages and nothing is sorted.
rebuild_messages_log_first(messages, log) ==
    log \o FilterRemote(messages)

rebuild_messages_with_system(messages, log) ==
    SortById(FilterRemote(messages) \o log)

\* add_local_system_message: the whole update_state closure.
add_local_system_message(sender, text) ==
    LET id == SYSTEM_MESSAGE_ID_BASE + next_system_message_id
        log == CapSystemMessages(
                   Append(system_messages, [id |-> id, sender |-> sender, text |-> text]))
    IN /\ next_system_message_id' = next_system_message_id + 1
       /\ system_messages' = log
       /\ ui_messages' = rebuild_messages_with_system(ui_messages, log)

\* ---------------------------------------------- bot connection callbacks
\* on_connect of bot b: the identity slot is written, set_name is called,
\* then the online flag is stored; other threads run in between.
BotOnConnectIdentity(b) ==
    /\ conn_pc[b] = "init"
    /\ identity' = [identity EXCEPT ![b] = BotIdentity(b)]
    /\ conn_pc' = [conn_pc EXCEPT ![b] = "connecting"]
    /\ UNCHANGED <<online, pipeVars, queueVars, sysVars, syncVars, schedVars, auxVars>>

BotOnConnectOnline(b) ==
    /\ conn_pc[b] = "connecting"
    /\ online' = [online EXCEPT ![b] = TRUE]
    /\ conn_pc' = [conn_pc EXCEPT ![b] = "up"]
    /\ UNCHANGED <<identity, pipeVars, queueVars, sysVars, syncVars, schedVars, auxVars>>

\* on_disconnect of bot b: the identity slot is cleared, then the flag.
BotOnDisconnectIdentity(b) ==
    /\ conn_pc[b] = "up"
    /\ identity' = [identity EXCEPT ![b] = None]
    /\ conn_pc' = [conn_pc EXCEPT ![b] = "closing"]
    /\ UNCHANGED <<online, pipeVars, queueVars, sysVars, syncVars, schedVars, auxVars>>

\* Mutant: on_disconnect of one bot clears the flag of every bot.
BotOnDisconnectOnlineAll(b) ==
    /\ conn_pc[b] = "closing"
    /\ online' = [x \in Bots |-> FALSE]
    /\ conn_pc' = [conn_pc EXCEPT ![b] = "closed"]
    /\ UNCHANGED <<identity, pipeVars, queueVars, sysVars, syncVars, schedVars, auxVars>>

BotOnDisconnectOnline(b) ==
    /\ conn_pc[b] = "closing"
    /\ online' = [online EXCEPT ![b] = FALSE]
    /\ conn_pc' = [conn_pc EXCEPT ![b] = "closed"]
    /\ UNCHANGED <<identity, pipeVars, queueVars, sysVars, syncVars, schedVars, auxVars>>

\* The two callbacks as whole handlers, for the threads that read only the
\* online flag (the delivery loop): to them the identity write is invisible.
BotOnConnect(b) ==
    /\ conn_pc[b] = "init"
    /\ identity' = [identity EXCEPT ![b] = BotIdentity(b)]
    /\ online' = [online EXCEPT ![b] = TRUE]
    /\ conn_pc' = [conn_pc EXCEPT ![b] = "up"]
    /\ UNCHANGED <<pipeVars, queueVars, sysVars, syncVars, schedVars, auxVars>>

BotOnDisconnect(b) ==
    /\ conn_pc[b] = "up"
    /\ identity' = [identity EXCEPT ![b] = None]
    /\ online' = [online EXCEPT ![b] = FALSE]
    /\ conn_pc' = [conn_pc EXCEPT ![b] = "closed"]
    /\ UNCHANGED <<pipeVars, queueVars, sysVars, syncVars, schedVars, auxVars>>

\* ------------------------------------------------------- reply pipeline
\* The text the generative service returns for request n, once normalized.
ReplyText(n) == <<"r">> \o Rep("x", n)
IncomingText(n) == <<"q">> \o Rep("x", n)

\* Mutant: the entries beyond the cap are cut at the end, the newest ones.
trim_history_drop_newest(history) ==
    IF Len(history) > MAX_HISTORY_ENTRIES
    THEN SubSeq(history, 1, MAX_HISTORY_ENTRIES)
    ELSE history

trim_history(history) ==
    IF Len(history) > MAX_HISTORY_ENTRIES
    THEN SubSeq(history, Len(history) - MAX_HISTORY_ENTRIES + 1, Len(history))
    ELSE history

\* Mutant: every reply is tagged with the first bot's name.
ReplyTagFirstBot(worker) == ProfileName(1)

\* The name a worker tags its reply with: bot.name of the profile it was given.
ReplyTag(worker) == worker.bot_name

\* Mutant: the snapshot is cloned before the User turn is pushed.
SpawnReplyStaleSnapshot(b) ==
    LET n == next_request + 1
        name == ProfileName(b)
        history == trim_history(
            Append(ai_histories[name], [role |-> "User", content |-> IncomingText(n)]))
    IN /\ next_request' = n
       /\ ai_histories' = [ai_histories EXCEPT ![name] = history]
       /\ workers' = workers \cup
              {[id |-> n, bot_name |-> name, history |-> ai_histories[name]]}
       /\ UNCHANGED ai_reply_rx

\* What request_bot_reply(state, bot, incoming_text, reply_tx) does, up to
\* thread::spawn: the User turn, the snapshot of the history, the new thread.
SpawnReply(b) ==
    LET n == next_request + 1
        name == ProfileName(b)
        history == trim_history(
            Append(ai_histories[name], [role |-> "User", content |-> IncomingText(n)]))
    IN /\ next_request' = n
       /\ ai_histories' = [ai_histories EXCEPT ![name] = history]
       /\ workers' = workers \cup {[id |-> n, bot_name |-> name, history |-> history]}
       /\ UNCHANGED ai_reply_rx

\* request_bot_reply called on its own.
request_bot_reply(b) ==
    /\ SpawnReply(b)
    /\ UNCHANGED <<botVars, queueVars, sysVars, syncVars, schedVars, auxVars>>

\* request_bot_reply as long as fewer than MaxRequests requests were made.
RequestBotReply(b) == next_request < MaxRequests /\ request_bot_reply(b)

\* The spawned thread when fetch_ollama_reply returns Ok(reply): the Assistant
\* turn is recorded, then the reply is sent on the channel.
WorkerReplyOk(w) ==
    /\ w \in workers
    /\ LET reply == ReplyText(w.id)
           name == w.bot_name
       IN /\ ai_histories' = [ai_histories EXCEPT ![name] = trim_history(
                  Append(ai_histories[name], [role |-> "Assistant", content |-> reply]))]
          /\ ai_reply_rx' = Append(ai_reply_rx, [bot_name |-> ReplyTag(w), text |-> reply])
    /\ workers' = workers \ {w}
    /\ UNCHANGED <<next_request, botVars, queueVars, sysVars, syncVars, schedVars, auxVars>>

\* Mutant: the notice does not say which bot failed.
ErrorTextAnonymous(name) == <<"E", "r", "r", "o">>

ErrorText(name) == <<"E", "r", "r", "o", " ">> \o name

\* Mutant: a failed request ends without a notice.
WorkerReplyErrSilent(w) ==
    /\ w \in workers
    /\ workers' = workers \ {w}
    /\ UNCHANGED <<next_request, ai_histories, ai_reply_rx, botVars, queueVars, sysVars,
                   syncVars, schedVars, auxVars>>

\* The spawned thread, fetch_ollama_reply returned Err(err).
WorkerReplyErr(w) ==
    /\ w \in workers
    /\ add_local_system_message(SystemSender, ErrorText(w.bot_name))
    /\ workers' = workers \ {w}
    /\ UNCHANGED <<next_request, ai_histories, ai_reply_rx, botVars, queueVars, syncVars, schedVars, auxVars>>

\* ------------------------------------------------------- delivery queue
\* run_app, the try_recv loop: every reply waiting on the channel is pushed on
\* the queue its bot_name keys, when there is one.
RECURSIVE DrainChannel(_, _)
DrainChannel(channel, queues) ==
    IF channel = <<>> THEN queues
    ELSE LET reply == Head(channel)
         IN DrainChannel(Tail(channel),
                IF reply.bot_name \in DOMAIN queues
                THEN [queues EXCEPT ![reply.bot_name] = Append(@, reply.text)]
                ELSE queues)

\* Mutant: the send loop takes the newest reply, queue.back(), and pops it.
RECURSIVE SendLoopNewestFirst(_, _, _)
SendLoopNewestFirst(b, queue, results) ==
    IF queue = <<>> \/ results = <<>> THEN [queue |-> queue, log |-> <<>>]
    ELSE IF Head(results)
    THEN LET rest == SendLoopNewestFirst(b, SubSeq(queue, 1, Len(queue) - 1), Tail(results))
         IN [queue |-> rest.queue,
             log |-> <<[bot |-> b, text |-> queue[Len(queue)], ok |-> TRUE]>> \o rest.log]
    ELSE [queue |-> queue, log |-> <<[bot |-> b, text |-> queue[Len(queue)], ok |-> FALSE]>>]

\* Mutant: a reply whose send failed is popped all the same, and the loop goes on.
RECURSIVE SendLoopPopOnFailure(_, _, _)
SendLoopPopOnFailure(b, queue, results) ==
    IF queue = <<>> \/ results = <<>> THEN [queue |-> queue, log |-> <<>>]
    ELSE LET rest == SendLoopPopOnFailure(b, Tail(queue), Tail(results))
         IN [queue |-> rest.queue,
             log |-> <<[bot |-> b, text |-> Head(queue), ok |-> Head(results)]>> \o rest.log]

\* run_app, `while let Some(reply) = queue.front().cloned()` for bot b: results
\* are the outcomes of the successive send_message calls.  Yields the queue
\* left and the calls made.
RECURSIVE SendLoop(_, _, _)
SendLoop(b, queue, results) ==
    IF queue = <<>> \/ results = <<>> THEN [queue |-> queue, log |-> <<>>]
    ELSE IF Head(results)
    THEN LET rest == SendLoop(b, Tail(queue), Tail(results))
         IN [queue |-> rest.queue,
             log |-> <<[bot |-> b, text |-> Head(queue), ok |-> TRUE]>> \o rest.log]
    ELSE [queue |-> queue, log |-> <<[bot |-> b, text |-> Head(queue), ok |-> FALSE]>>]

\* oks successes, then a failure.
SendResults(oks) == [i \in 1..(oks + 1) |-> i <= oks]

\* The key of bot b's queue.
QueueKey(b) == ProfileName(b)

\* Mutant: the loop over the bots stops before the last bot.
RECURSIVE DeliverFromSkippingLast(_, _, _, _)
DeliverFromSkippingLast(b, queues, flags, oks) ==
    IF b >= AI_BOT_COUNT THEN [queues |-> queues, log |-> <<>>]
    ELSE IF ~flags[b] \/ QueueKey(b) \notin DOMAIN queues
    THEN DeliverFromSkippingLast(b + 1, queues, flags, oks)
    ELSE LET sent == SendLoop(b, queues[QueueKey(b)], SendResults(oks[b]))
             rest == DeliverFromSkippingLast(b + 1,
                         [queues EXCEPT ![QueueKey(b)] = sent.queue], flags, oks)
         IN [queues |-> rest.queues, log |-> sent.log \o rest.log]

\* run_app, `for bot in ai_bots`: bots b..AI_BOT_COUNT in order.
RECURSIVE DeliverFrom(_, _, _, _)
DeliverFrom(b, queues, flags, oks) ==
    IF b > AI_BOT_COUNT THEN [queues |-> queues, log |-> <<>>]
    ELSE IF ~flags[b] \/ QueueKey(b) \notin DOMAIN queues
    THEN DeliverFrom(b + 1, queues, flags, oks)
    ELSE LET sent == SendLoop(b, queues[QueueKey(b)], SendResults(oks[b]))
             rest == DeliverFrom(b + 1, [queues EXCEPT ![QueueKey(b)] = sent.queue],
                                 flags, oks)
         IN [queues |-> rest.queues, log |-> sent.log \o rest.log]

AcceptedBy(b, log) ==
    LET mine == SelectSeq(log, LAMBDA c : c.bot = b /\ c.ok)
    IN [i \in 1..Len(mine) |-> mine[i].text]

\* run_app lines 204-231 of one loop iteration: the channel is drained, then
\* every online bot sends from the front of its queue until a send fails.
\* oks[b] is how many of bot b's sends succeed before one fails.
MainLoopDrain ==
    \E oks \in [Bots -> 0..MaxRequests] :
        LET drained == DrainChannel(ai_reply_rx, pending_ai_replies)
            out == DeliverFrom(1, drained, online, oks)
        IN /\ \A b \in Bots :
                 oks[b] <= (IF online[b] THEN Len(drained[QueueKey(b)]) ELSE 0)
           /\ ai_reply_rx' = <<>>
           /\ pending_ai_replies' = out.queues
           /\ send_log' = out.log
           /\ enqueued' = DrainChannel(ai_reply_rx, enqueued)
           /\ accepted' = [b \in Bots |-> accepted[b] \o AcceptedBy(b, out.log)]
           /\ UNCHANGED <<next_request, workers, ai_histories, botVars, sysVars, syncVars, schedVars, auxVars>>

\* ------------------------------------------------ delivery specification
InitBots ==
    /\ online = [b \in Bots |-> FALSE]
    /\ identity = [b \in Bots |-> None]
    /\ conn_pc = [b \in Bots |-> "init"]

InitPipeline ==
    /\ next_request = 0
    /\ workers = {}
    /\ ai_histories = [n \in BotNames |-> <<>>]
    /\ ai_reply_rx = <<>>

InitQueues ==
    /\ pending_ai_replies = [n \in BotNames |-> <<>>]
    /\ enqueued = [n \in BotNames |-> <<>>]
    /\ accepted = [b \in Bots |-> <<>>]
    /\ send_log = <<>>

InitSystem ==
    /\ ui_messages = <<>>
    /\ system_messages = <<>>
    /\ next_system_message_id = 0

InitSync ==
    /\ subscribed = FALSE
    /\ db_user = {}
    /\ db_message = <<>>
    /\ ui_users = <<>>
    /\ users_presence_initialized = FALSE
    /\ users_scroll = 0
    /\ reconciled = 0

NoDecision ==
    [kind |-> "none", id |-> 0, sender |-> None, text |-> <<>>, ai |-> FALSE, human_online |-> FALSE, before |-> 0, chain |-> 0,
     directed |-> 0, draw |-> "none", chosen |-> 0, online |-> {}]

InitScheduler ==
    /\ initialized_seen = FALSE
    /\ last_seen_message_id = 0
    /\ consecutive_ai_messages = 0
    /\ loop_pc = "top"
    /\ bot_identities = {}
    /\ online_human_identities = {}
    /\ new_messages = <<>>
    /\ decision = NoDecision
    /\ preexisting = {}

NoProactive ==
    [kind |-> "none", at |-> 0, online |-> {}, draw |-> "none", starter |-> 0, target |-> 0]

\* run_app lines 199-200: both instants are taken when the loop starts.
InitClock ==
    /\ now = 0
    /\ last_chat_activity = 0
    /\ last_proactive_attempt = 0
    /\ proactive = NoProactive

\* UiState::default() and AppState { status: false, .. }.
InitUi ==
    /\ screen = "MainMenu"
    /\ popup = "None"
    /\ menu_selected = 0
    /\ input = <<>>
    /\ should_quit = FALSE
    /\ status = FALSE
    /\ poisoned = FALSE
    /\ panicked = FALSE

NoCall == [fn |-> "none", pc |-> "none", arg |-> <<>>, max_chars |-> 0, result |-> <<>>]

InitText == call = NoCall

\* Holders of the state mutex: nobody, or the main thread, or the spawned
\* thread of request n (n >= 1).
FreeLock == 0
MainThread == 0 - 1

NoMainCall == [pc |-> 0, bot |-> 0, history |-> <<>>]

InitLock ==
    /\ state_lock = FreeLock
    /\ threads = <<>>
    /\ main_call = NoMainCall

\* The server module is published with empty tables and nobody connected.
InitServer ==
    /\ server_user = {}
    /\ connections = [id \in {} |-> 0]
    /\ named = {}

\* Nothing was observed yet, no call was taken by the server.
InitObserver ==
    /\ chance_replies = 0
    /\ visited = <<>>
    /\ executed = [b \in Bots |-> 0]

InitProgram ==
    /\ InitBots /\ InitPipeline /\ InitQueues /\ InitSystem /\ InitSync /\ InitScheduler
    /\ InitClock /\ InitUi /\ InitLock /\ InitServer /\ InitObserver

InitClient == InitProgram /\ InitText

\* The client starts against an empty room.
Init == InitClient /\ remote_message = <<>>

BotCallbackStep ==
    \E b \in Bots :
        \/ BotOnConnectIdentity(b)
        \/ BotOnConnectOnline(b)
        \/ BotOnDisconnectIdentity(b)
        \/ BotOnDisconnectOnline(b)

BotCallback == \E b \in Bots : BotOnConnect(b) \/ BotOnDisconnect(b)

Pipeline ==
    \/ \E b \in Bots : RequestBotReply(b)
    \/ \E w \in workers : WorkerReplyOk(w)
    \/ \E w \in workers : WorkerReplyErr(w)

NextDelivery == BotCallback \/ Pipeline \/ MainLoopDrain

SpecDelivery == Init /\ [][NextDelivery]_vars

\* ------------------------------------------------------ state reconciler
\* Byte order of the characters the model's strings are written in.
Alphabet ==
    <<" ", "0", "1", "2", "3", ".", "A", "B", "E", "I", "K", "L", "N", "O", "R", "S",
      "a", "b", "c", "d", "e", "h", "i", "k", "l", "m", "n", "o", "r", "s", "t", "u", "x", "y">>

CharRank(c) == CHOOSE i \in 1..Len(Alphabet) : Alphabet[i] = c

\* String::cmp(a, b) = Less or Equal.
RECURSIVE StrLeq(_, _)
StrLeq(a, b) ==
    IF a = <<>> THEN TRUE
    ELSE IF b = <<>> THEN FALSE
    ELSE IF Head(a) = Head(b) THEN StrLeq(Tail(a), Tail(b))
    ELSE CharRank(Head(a)) < CharRank(Head(b))

\* The comparator of users.sort_by: online first, then name, case folded.
UserLeq(a, b) ==
    IF a.online # b.online THEN a.online
    ELSE StrLeq(to_lowercase(a.name), to_lowercase(b.name))

RECURSIVE InsertUser(_, _)
InsertUser(sorted, u) ==
    IF sorted = <<>> THEN <<u>>
    ELSE IF UserLeq(Head(sorted), u) THEN <<Head(sorted)>> \o InsertUser(Tail(sorted), u)
    ELSE <<u>> \o sorted

\* Vec::sort_by, stable.
RECURSIVE SortUsers(_)
SortUsers(us) ==
    IF us = <<>> THEN <<>>
    ELSE InsertUser(SortUsers(SubSeq(us, 1, Len(us) - 1)), us[Len(us)])

\* db.user().iter(): the rows of the cache in some order.
IterationsOf(rows) ==
    {order \in [1..Cardinality(rows) -> rows] :
        \A i, j \in 1..Cardinality(rows) : i # j => order[i] # order[j]}

short_identity(id) ==
    IF Len(id) <= 18 THEN id
    ELSE SubSeq(id, 1, Min(10, Len(id))) \o <<".", ".">>
             \o SubSeq(id, Max(Len(id) - 6, 0) + 1, Len(id))

display_user_name(user) ==
    IF ~trim_is_empty(user.name) THEN user.name ELSE short_identity(user.identity)

ConnectedText(user) ==
    display_user_name(user) \o <<" ", "c", "o", "n", "n", "e", "c", "t", "e", "d">>

DisconnectedText(user) ==
    display_user_name(user)
        \o <<" ", "d", "i", "s", "c", "o", "n", "n", "e", "c", "t", "e", "d">>

\* Mutant: an identity missing from the map counts as online.
OnlineInDefaultTrue(users, id) ==
    IF \E i \in 1..Len(users) : users[i].identity = id
    THEN LET last == CHOOSE i \in 1..Len(users) :
                         /\ users[i].identity = id
                         /\ \A j \in (i + 1)..Len(users) : users[j].identity # id
         IN users[last].online
    ELSE TRUE

\* HashMap<&str, bool> built from the list, then .get(id).copied().unwrap_or(false).
OnlineIn(users, id) ==
    IF \E i \in 1..Len(users) : users[i].identity = id
    THEN LET last == CHOOSE i \in 1..Len(users) :
                         /\ users[i].identity = id
                         /\ \A j \in (i + 1)..Len(users) : users[j].identity # id
         IN users[last].online
    ELSE FALSE

RECURSIVE ConnectedEvents(_, _)
ConnectedEvents(previous_users, users) ==
    IF users = <<>> THEN <<>>
    ELSE (IF Head(users).online /\ ~OnlineIn(previous_users, Head(users).identity)
          THEN <<ConnectedText(Head(users))>> ELSE <<>>)
         \o ConnectedEvents(previous_users, Tail(users))

RECURSIVE DisconnectedEvents(_, _)
DisconnectedEvents(previous_users, users) ==
    IF previous_users = <<>> THEN <<>>
    ELSE (IF Head(previous_users).online /\ ~OnlineIn(users, Head(previous_users).identity)
          THEN <<DisconnectedText(Head(previous_users))>> ELSE <<>>)
         \o DisconnectedEvents(Tail(previous_users), users)

\* Mutant: the presence diff runs on the first reconciliation too.
PresenceEventsUnguarded(initialized, previous_users, users) ==
    ConnectedEvents(previous_users, users) \o DisconnectedEvents(previous_users, users)

\* presence_events of sync_from_tables.
PresenceEvents(initialized, previous_users, users) ==
    IF initialized
    THEN ConnectedEvents(previous_users, users) \o DisconnectedEvents(previous_users, users)
    ELSE <<>>

\* Mutant: the ids restart at the base on every reconciliation.
SystemMessagesForFromBase(events, counter) ==
    [i \in 1..Len(events) |->
        [id |-> SYSTEM_MESSAGE_ID_BASE + i - 1, sender |-> SystemSender,
         text |-> events[i]]]

\* The System messages pushed for the events, ids from counter on.
SystemMessagesFor(events, counter) ==
    [i \in 1..Len(events) |->
        [id |-> SYSTEM_MESSAGE_ID_BASE + counter + i - 1, sender |-> SystemSender,
         text |-> events[i]]]

\* Mutant: the scroll position is left where it was.
clamp_users_scroll_kept(scroll, users) == scroll

\* users_scroll.min(users.len().saturating_sub(1))
clamp_users_scroll(scroll, users) == Min(scroll, Max(Len(users) - 1, 0))

\* sync_from_tables(db, state), the cache being as given.
sync_from_tables(rows, messages) ==
    \E order \in IterationsOf(rows) :
        LET users == SortUsers(order)
            events == PresenceEvents(users_presence_initialized, ui_users, users)
            log == CapSystemMessages(
                       system_messages \o SystemMessagesFor(events, next_system_message_id))
        IN /\ users_presence_initialized' = TRUE
           /\ next_system_message_id' = next_system_message_id + Len(events)
           /\ system_messages' = log
           /\ ui_messages' = SortById(SortById(messages) \o log)
           /\ ui_users' = users
           /\ users_scroll' = clamp_users_scroll(users_scroll, users)
           /\ reconciled' = reconciled + 1

\* ------------------------------------------- the remote tables, as seen
\* by the human connection: a transaction changes the cache, then the row
\* callbacks (or on_applied) run sync_from_tables.
HumanA == <<"a", "1">> \o Rep("0", 18)
HumanB == <<"b", "a">> \o Rep("0", 18)
NameAna == <<"A", "n", "a">>
NameBlank == <<" ">>

\* A user table over the given identities and names: one row per identity at most.
UserTables(ids, names) ==
    {rows \in SUBSET [identity : ids, name : names, online : BOOLEAN] :
        \A r1, r2 \in rows : r1.identity = r2.identity => r1 = r2}

\* The initial subscription: the cache receives the server's rows, the row
\* callbacks and on_applied run sync_from_tables.  rows is the server's user
\* table at that moment.
SubscriptionApplied(rows) ==
    /\ ~subscribed
    /\ subscribed' = TRUE
    /\ db_user' = rows
    /\ db_message' = remote_message
    /\ UNCHANGED remote_message
    /\ sync_from_tables(rows, remote_message)
    /\ status' = TRUE
    /\ UNCHANGED <<screen, popup, menu_selected, input, should_quit, poisoned, panicked>>
    /\ UNCHANGED <<botVars, pipeVars, queueVars, schedVars, clockVars, textVars, lockVars, serverVars, observerVars, wireVars>>

\* on_insert / on_update / on_delete of the user table after a transaction
\* that left the table as rows.
UserTableChanged(rows) ==
    /\ subscribed
    /\ rows # db_user
    /\ db_user' = rows
    /\ UNCHANGED <<remote_message, subscribed, db_message>>
    /\ sync_from_tables(rows, db_message)
    /\ UNCHANGED <<botVars, pipeVars, queueVars, schedVars, auxVars>>

\* The server's send_message inserted a row (auto_inc id); on_insert of the
\* message table.
MessageInserted(sender, text) ==
    /\ subscribed
    /\ LET row == [id |-> Len(remote_message) + 1, sender |-> sender, text |-> text]
       IN /\ remote_message' = Append(remote_message, row)
          /\ db_message' = Append(db_message, row)
          /\ sync_from_tables(db_user, Append(db_message, row))
    /\ UNCHANGED <<subscribed, db_user>>
    /\ UNCHANGED <<botVars, pipeVars, queueVars, schedVars, auxVars>>

\* A further callback of the same transaction: the cache is as the previous
\* callback saw it.
CallbackAgain ==
    /\ subscribed
    /\ UNCHANGED <<remote_message, subscribed, db_user, db_message>>
    /\ sync_from_tables(db_user, db_message)
    /\ UNCHANGED <<botVars, pipeVars, queueVars, schedVars, auxVars>>

TextOi == <<"o", "i">>
TextBlank == <<" ", "\n">>

SyncIdentities == {HumanA, HumanB}
SyncNames == {NameAna, NameBlank}

CanReconcile == reconciled < MaxReconciliations

NextSync ==
    \/ \E rows \in UserTables(SyncIdentities, SyncNames) : SubscriptionApplied(rows)
    \/ CanReconcile /\ \E rows \in UserTables(SyncIdentities, SyncNames) : UserTableChanged(rows)
    \/ CanReconcile /\ MessageInserted(HumanA, TextOi)
    \/ CanReconcile /\ CallbackAgain

SpecSync == Init /\ [][NextSync]_vars

\* ----------------------------------------------------- response scheduler
\* The least element of a non-empty set of bots: the first in ai_bots order.
FirstOf(bots) == CHOOSE b \in bots : \A c \in bots : b <= c

\* `.is_none_or(|id| id != sender_identity)` on bot b's identity slot.
SlotIsNot(b, sender_identity) == identity[b] = None \/ identity[b] # sender_identity

\* find_directed_bot: 0 stands for None.
find_directed_bot(sender_identity, message_text) ==
    LET lowered_message == to_lowercase(message_text)
        hits == {b \in Bots :
                    /\ online[b]
                    /\ SlotIsNot(b, sender_identity)
                    /\ contains(lowered_message, to_lowercase(ProfileName(b)))}
    IN IF hits = {} THEN 0 ELSE FirstOf(hits)

\* Mutant: every configured bot is a candidate, online or not.
CandidatesIgnoringOnline(flags) == Bots

\* choose_responder_bot, `candidates`: the bots whose online flag is set.
Candidates(flags) == {b \in Bots : flags[b]}

\* Mutant: the cap is compared with > instead of >=.
ChainCapReachedStrict(count) == count > MAX_AI_CHAIN_MESSAGES

\* choose_responder_bot, `consecutive_ai_messages >= MAX_AI_CHAIN_MESSAGES`.
ChainCapReached(count) == count >= MAX_AI_CHAIN_MESSAGES

\* candidates.choose(&mut rng): any candidate, None when there is none.
ChooseFrom(candidates, draw) ==
    IF candidates = {} THEN {[draw |-> draw, chosen |-> 0]}
    ELSE {[draw |-> draw, chosen |-> b] : b \in candidates}

\* choose_responder_bot: every outcome the random source allows, as the draw
\* of random_bool ("none" when it is not called) and the bot returned.
choose_responder_bot(identities, sender_identity, sender_is_ai, count) ==
    IF sender_is_ai
    THEN IF ChainCapReached(count)
         THEN {[draw |-> "none", chosen |-> 0]}
         ELSE {[draw |-> "no", chosen |-> 0]}
                  \cup ChooseFrom({b \in Candidates(online) : SlotIsNot(b, sender_identity)},
                                  "yes")
    ELSE IF sender_identity = SystemSender \/ sender_identity \in identities
    THEN {[draw |-> "none", chosen |-> 0]}
    ELSE ChooseFrom(Candidates(online), "none")

\* current_bot_identity_set
current_bot_identity_set == {identity[b] : b \in {c \in Bots : identity[c] # None}}

RemoteIds(ms) == {ms[i].id : i \in {j \in 1..Len(ms) : ms[j].id < SYSTEM_MESSAGE_ID_BASE}}

MaxOf(ids) == IF ids = {} THEN 0 ELSE CHOOSE n \in ids : \A m \in ids : m <= n

\* run_app lines 233-264: the snapshot is taken, the bot identities and the
\* online humans are computed; the first iteration only records the highest
\* id it sees, a later one collects the new messages.
SchedulerSnapshot ==
    /\ loop_pc = "top"
    /\ LET ids == current_bot_identity_set
       IN /\ bot_identities' = ids
          /\ online_human_identities' =
                 {u.identity : u \in {r \in Range(ui_users) :
                                         r.online /\ r.identity \notin ids}}
    /\ IF ~initialized_seen
       THEN /\ last_seen_message_id' = MaxOf(RemoteIds(ui_messages))
            /\ initialized_seen' = TRUE
            /\ new_messages' = <<>>
            /\ loop_pc' = "top"
            /\ preexisting' = RemoteIds(remote_message)
       ELSE /\ new_messages' = SortById(SelectSeq(ui_messages, LAMBDA m :
                                   m.id > last_seen_message_id
                                       /\ m.id < SYSTEM_MESSAGE_ID_BASE))
            /\ loop_pc' = "messages"
            /\ UNCHANGED <<last_seen_message_id, initialized_seen, preexisting>>
    /\ UNCHANGED <<consecutive_ai_messages, decision>>
    /\ UNCHANGED <<botVars, pipeVars, queueVars, sysVars, syncVars, auxVars>>

\* Mutant: only a blank text makes the loop go on to the next message.
MessageSkippedOnlyBlank(text, sender_is_ai, sender_online) == trim_is_empty(text)

\* run_app lines 267-274, the two `continue` tests.
MessageSkipped(text, sender_is_ai, sender_online) ==
    \/ trim_is_empty(text)
    \/ ~sender_is_ai /\ ~sender_online

\* Mutant: a human message leaves the counter as it is.
chain_count_never_reset(sender_is_ai, count) ==
    IF sender_is_ai THEN count + 1 ELSE count

\* run_app lines 277-281: saturating_add(1) for a bot, 0 for a human.  The
\* counter stays far below usize::MAX.
chain_count(sender_is_ai, count) ==
    IF sender_is_ai THEN count + 1 ELSE 0

\* Mutant: the highest id seen is left where it was.
last_seen_kept(last_seen, id) == last_seen

\* run_app line 266: last_seen_message_id.max(message.id)
last_seen_after(last_seen, id) == Max(last_seen, id)

\* run_app lines 265-302, one turn of `for message in new_messages`.  The
\* request_bot_reply call is recorded in decision.chosen; what the call does
\* to the pipeline is RequestBotReply.
ProcessMessage ==
    /\ loop_pc = "messages"
    /\ new_messages # <<>>
    /\ LET message == Head(new_messages)
           sender_is_ai == message.sender \in bot_identities
           seen == [kind |-> "skipped", id |-> message.id, sender |-> message.sender,
                    text |-> message.text, ai |-> sender_is_ai,
                    human_online |-> message.sender \in online_human_identities,
                    before |-> consecutive_ai_messages,
                    chain |-> consecutive_ai_messages, directed |-> 0, draw |-> "none",
                    chosen |-> 0, online |-> {b \in Bots : online[b]}]
       IN /\ new_messages' = Tail(new_messages)
          /\ last_seen_message_id' = last_seen_after(last_seen_message_id, message.id)
          /\ IF MessageSkipped(message.text, sender_is_ai,
                                message.sender \in online_human_identities)
             THEN /\ decision' = seen
                  /\ UNCHANGED <<consecutive_ai_messages, last_chat_activity>>
             ELSE LET count == chain_count(sender_is_ai, consecutive_ai_messages)
                      directed_bot == find_directed_bot(message.sender, message.text)
                  IN /\ consecutive_ai_messages' = count
                     /\ last_chat_activity' = now
                     /\ \E pick \in (IF directed_bot # 0
                                     THEN {[draw |-> "none", chosen |-> directed_bot]}
                                     ELSE choose_responder_bot(bot_identities,
                                              message.sender, sender_is_ai, count)) :
                            decision' = [seen EXCEPT !.kind = "processed",
                                                     !.chain = count,
                                                     !.directed = directed_bot,
                                                     !.draw = pick.draw,
                                                     !.chosen = pick.chosen]
    /\ UNCHANGED <<initialized_seen, loop_pc, bot_identities, online_human_identities,
                   preexisting>>
    /\ UNCHANGED <<now, last_proactive_attempt, proactive, uiVars, textVars, lockVars, serverVars,
                   wireVars>>
    /\ UNCHANGED <<botVars, pipeVars, queueVars, sysVars, syncVars>>

\* One turn of the for loop, nothing being observed.
SchedulerMessage == ProcessMessage /\ UNCHANGED observerVars

\* Mutant: the idle window is not looked at.
IdleNotChecked(since) == TRUE

\* `last_chat_activity.elapsed() < idle_window` is false.
IdleElapsed(since) == since >= AI_PROACTIVE_IDLE_SECS

\* `last_proactive_attempt.elapsed() < cooldown` is false.
CooldownElapsed(since) == since >= AI_PROACTIVE_COOLDOWN_SECS

\* What a call leaves when it returns without a dispatch.
ProactiveReturn(attempt) ==
    [attempt |-> attempt, activity |-> last_chat_activity, dispatched |-> proactive,
     request |-> 0]

\* Mutant: starter and target are drawn one independently of the other.
shuffle_independent(online_bots) == online_bots \X online_bots

\* online_bots.shuffle(&mut rng), then [0] and [1]: the first two bots of any
\* order of the online bots.
shuffle(online_bots) ==
    {<<order[1], order[2]>> :
        order \in {o \in [1..Cardinality(online_bots) -> online_bots] :
                      \A i, j \in DOMAIN o : i # j => o[i] # o[j]}}

\* maybe_start_proactive_ai_chat: every outcome the random source allows, as
\* the two instants and the record of the last dispatch after the call, and
\* the bot request_bot_reply is called for (0 when it is not called).
maybe_start_proactive_ai_chat ==
    IF AI_BOT_COUNT < 2 THEN {ProactiveReturn(last_proactive_attempt)}
    ELSE IF \E name \in BotNames : pending_ai_replies[name] # <<>>
    THEN {ProactiveReturn(last_proactive_attempt)}
    ELSE IF ~CooldownElapsed(now - last_proactive_attempt)
    THEN {ProactiveReturn(last_proactive_attempt)}
    ELSE IF ~IdleElapsed(now - last_chat_activity) THEN {ProactiveReturn(now)}
    ELSE LET online_bots == {b \in Bots : online[b]}
         IN IF Cardinality(online_bots) < 2 THEN {ProactiveReturn(now)}
            ELSE {ProactiveReturn(now)}
                   \cup {[attempt |-> now, activity |-> now,
                          dispatched |-> [kind |-> "dispatched", at |-> now,
                                          online |-> online_bots, draw |-> "yes",
                                          starter |-> pair[1], target |-> pair[2]],
                          request |-> pair[1]] :
                            pair \in shuffle(online_bots)}

\* run_app lines 303-329: the for loop is over, maybe_start_proactive_ai_chat
\* runs and the iteration ends.
SchedulerFinish ==
    /\ loop_pc = "messages"
    /\ new_messages = <<>>
    /\ loop_pc' = "top"
    /\ \E outcome \in maybe_start_proactive_ai_chat :
           /\ last_proactive_attempt' = outcome.attempt
           /\ last_chat_activity' = outcome.activity
           /\ proactive' = outcome.dispatched
           /\ IF outcome.request = 0 THEN UNCHANGED pipeVars
              ELSE SpawnReply(outcome.request)
    /\ UNCHANGED <<initialized_seen, last_seen_message_id, consecutive_ai_messages,
                   bot_identities, online_human_identities, new_messages, decision,
                   preexisting>>
    /\ UNCHANGED <<now, uiVars, textVars, lockVars, serverVars, observerVars, wireVars>>
    /\ UNCHANGED <<botVars, queueVars, sysVars, syncVars>>

\* The clock of the machine moves on.
TimePasses(seconds) ==
    /\ now' = now + seconds
    /\ UNCHANGED <<last_chat_activity, last_proactive_attempt, proactive, uiVars, textVars, lockVars, serverVars, observerVars, wireVars>>
    /\ UNCHANGED <<botVars, pipeVars, queueVars, sysVars, syncVars, schedVars>>

\* ------------------------------------------ scheduler specification: races
TextBoth == <<"K", "A", "E", "L", " ", "o", "r", "i", "n">>

NameOfIdentity(id) ==
    IF id = HumanA THEN NameAna
    ELSE IF id = HumanB THEN NameBlank
    ELSE ProfileName(CHOOSE b \in Bots : BotIdentity(b) = id)

\* User tables in which each identity carries the name it set for itself.
NamedTables(ids) ==
    {rows \in UserTables(ids, {NameOfIdentity(id) : id \in ids}) :
        \A r \in rows : r.name = NameOfIdentity(r.identity)}

RaceIdentities == {HumanA}
RaceSenders == {HumanA, BotIdentity(1)}
RaceTexts == {TextOi, TextBoth}
RaceLiveBots == {1, 2}
RaceHistories == {<<>>, <<[id |-> 1, sender |-> HumanA, text |-> TextOi]>>}

InitRace == InitClient /\ remote_message \in RaceHistories

NextRace ==
    \/ \E rows \in NamedTables(RaceIdentities) : SubscriptionApplied(rows)
    \/ /\ reconciled < MaxRaceReconciliations
       /\ \E rows \in NamedTables(RaceIdentities) : UserTableChanged(rows)
    \/ /\ reconciled < MaxRaceReconciliations
       /\ Len(remote_message) < MaxRaceMessages
       /\ \E sender \in RaceSenders, text \in RaceTexts : MessageInserted(sender, text)
    \/ \E b \in RaceLiveBots : BotOnConnectIdentity(b)
    \/ \E b \in RaceLiveBots : BotOnConnectOnline(b)
    \/ \E b \in RaceLiveBots : BotOnDisconnectIdentity(b)
    \/ \E b \in RaceLiveBots : BotOnDisconnectOnline(b)
    \/ SchedulerSnapshot
    \/ SchedulerMessage
    \/ SchedulerFinish

SpecRace == InitRace /\ [][NextRace]_vars

\* ------------------------------------------ scheduler specification: chains
\* Long runs of bot messages.  The human is online when the subscription is
\* applied, the bots connect as whole handlers and stay connected, and the
\* messages arrive between two iterations of the loop, after the first one;
\* SpecRace has the other interleavings.
TextOrin == <<"O", "r", "i", "n", "?">>

ChainKinds == {[sender |-> BotIdentity(1), text |-> TextOi],
               [sender |-> BotIdentity(1), text |-> TextOrin],
               [sender |-> HumanA, text |-> TextOi]}
ChainLiveBots == {1, 2}
ChainTables == {rows \in NamedTables({HumanA}) : \E r \in rows : r.online}

NextChain ==
    \/ \E rows \in ChainTables : SubscriptionApplied(rows)
    \/ /\ loop_pc = "top"
       /\ initialized_seen
       /\ Len(remote_message) < MaxChainMessages
       /\ \E kind \in ChainKinds : MessageInserted(kind.sender, kind.text)
    \/ \E b \in ChainLiveBots : BotOnConnect(b)
    \/ SchedulerSnapshot
    \/ SchedulerMessage
    \/ SchedulerFinish

SpecChain == Init /\ [][NextChain]_vars

\* ------------------------------------------------------------- keyboard
\* str::trim on a sequence of characters.
RECURSIVE trim_start(_)
trim_start(s) ==
    IF s # <<>> /\ IsWhitespace(Head(s)) THEN trim_start(Tail(s)) ELSE s

RECURSIVE trim_end(_)
trim_end(s) ==
    IF s # <<>> /\ IsWhitespace(s[Len(s)]) THEN trim_end(SubSeq(s, 1, Len(s) - 1)) ELSE s

trim(s) == trim_end(trim_start(s))

Key(code) == [code |-> code, c |-> ""]
CharKey(c) == [code |-> "Char", c |-> c]
CtrlC == [code |-> "CtrlC", c |-> "c"]

\* The part of the shared state the key handlers work on.
UiNow ==
    [screen |-> screen, popup |-> popup, menu_selected |-> menu_selected,
     input |-> input, should_quit |-> should_quit, status |-> status,
     users_scroll |-> users_scroll]

\* handle_menu_key; MainMenuItem::ALL has three items.
handle_menu_key(ui, key) ==
    IF key.code = "Up"
    THEN [ui EXCEPT !.menu_selected = IF @ > 0 THEN @ - 1 ELSE @]
    ELSE IF key.code = "Down"
    THEN [ui EXCEPT !.menu_selected = IF @ + 1 < 3 THEN @ + 1 ELSE @]
    ELSE IF key.code = "Enter"
    THEN IF ui.menu_selected = 1 THEN [ui EXCEPT !.popup = "Soon"]
         ELSE IF ui.menu_selected = 2 THEN [ui EXCEPT !.should_quit = TRUE]
         ELSE [ui EXCEPT !.popup = "ChooseName", !.input = <<>>]
    ELSE ui

\* Mutant: the chat is entered whatever set_name returned.
handle_popup_key_ignores_result(ui, key, reducer_ok) ==
    IF ui.popup = "ChooseName"
    THEN IF key.code = "Esc" THEN [ui EXCEPT !.popup = "None", !.input = <<>>]
         ELSE IF key.code = "Backspace"
         THEN [ui EXCEPT !.input = IF @ = <<>> THEN @ ELSE SubSeq(@, 1, Len(@) - 1)]
         ELSE IF key.code = "Enter"
         THEN IF trim(ui.input) = <<>> THEN [ui EXCEPT !.input = <<>>]
              ELSE [ui EXCEPT !.input = <<>>, !.popup = "None", !.screen = "Chat",
                              !.users_scroll = 0]
         ELSE IF key.code = "Char" THEN [ui EXCEPT !.input = Append(@, key.c)]
         ELSE ui
    ELSE IF key.code \in {"Enter", "Esc"} THEN [ui EXCEPT !.popup = "None"]
    ELSE ui

\* handle_popup_key; reducer_ok is the result of conn.reducers.set_name.
handle_popup_key(ui, key, reducer_ok) ==
    IF ui.popup = "ChooseName"
    THEN IF key.code = "Esc" THEN [ui EXCEPT !.popup = "None", !.input = <<>>]
         ELSE IF key.code = "Backspace"
         THEN [ui EXCEPT !.input = IF @ = <<>> THEN @ ELSE SubSeq(@, 1, Len(@) - 1)]
         ELSE IF key.code = "Enter"
         THEN IF trim(ui.input) = <<>> THEN [ui EXCEPT !.input = <<>>]
              ELSE IF reducer_ok
              THEN [ui EXCEPT !.input = <<>>, !.popup = "None", !.screen = "Chat",
                              !.users_scroll = 0]
              ELSE [ui EXCEPT !.input = <<>>, !.status = FALSE]
         ELSE IF key.code = "Char" THEN [ui EXCEPT !.input = Append(@, key.c)]
         ELSE ui
    ELSE IF key.code \in {"Enter", "Esc"} THEN [ui EXCEPT !.popup = "None"]
    ELSE ui

\* handle_chat_key for the keys of Keys; reducer_ok is the result of
\* conn.reducers.send_message.
handle_chat_key(ui, key, reducer_ok) ==
    IF key.code = "Up"
    THEN [ui EXCEPT !.users_scroll = IF @ > 0 THEN @ - 1 ELSE @]
    ELSE IF key.code = "Down"
    THEN [ui EXCEPT !.users_scroll = IF @ + 1 < Len(ui_users) THEN @ + 1 ELSE @]
    ELSE IF key.code = "F1"
    THEN [ui EXCEPT !.screen = "MainMenu", !.popup = "None", !.input = <<>>]
    ELSE IF key.code = "Esc" THEN [ui EXCEPT !.input = <<>>]
    ELSE IF key.code = "Backspace"
    THEN [ui EXCEPT !.input = IF @ = <<>> THEN @ ELSE SubSeq(@, 1, Len(@) - 1)]
    ELSE IF key.code = "Enter"
    THEN IF trim(ui.input) = <<>> \/ reducer_ok THEN [ui EXCEPT !.input = <<>>]
         ELSE [ui EXCEPT !.input = <<>>, !.status = FALSE]
    ELSE IF key.code = "Char" THEN [ui EXCEPT !.input = Append(@, key.c)]
    ELSE ui

\* handle_key_event with the lock in good state.
handle_key_event(ui, key, reducer_ok) ==
    IF key = CtrlC THEN [ui EXCEPT !.should_quit = TRUE]
    ELSE IF ui.popup = "None" /\ ui.screen = "MainMenu" /\ key = CharKey("q")
    THEN [ui EXCEPT !.should_quit = TRUE]
    ELSE IF ui.popup # "None" THEN handle_popup_key(ui, key, reducer_ok)
    ELSE IF ui.screen = "MainMenu" THEN handle_menu_key(ui, key)
    ELSE handle_chat_key(ui, key, reducer_ok)

\* run_app lines 323-327: a key press reaches handle_key_event.  With the lock
\* poisoned update_state does nothing and state.lock().expect(..) panics.
HandleKeyEvent(key, reducer_ok) ==
    /\ ~should_quit
    /\ ~panicked
    /\ LET ui == IF poisoned THEN UiNow ELSE handle_key_event(UiNow, key, reducer_ok)
       IN /\ screen' = ui.screen
          /\ popup' = ui.popup
          /\ menu_selected' = ui.menu_selected
          /\ input' = ui.input
          /\ should_quit' = ui.should_quit
          /\ status' = ui.status
          /\ users_scroll' = ui.users_scroll
    /\ panicked' = (poisoned /\ key # CtrlC)
    /\ UNCHANGED <<poisoned, remote_message, subscribed, db_user, db_message, ui_users,
                   users_presence_initialized, reconciled>>
    /\ UNCHANGED <<botVars, pipeVars, queueVars, sysVars, schedVars, clockVars, textVars, lockVars, serverVars, observerVars, wireVars>>

\* A thread panicked while it held the lock of the shared state.
LockPoisoned ==
    /\ ~poisoned
    /\ poisoned' = TRUE
    /\ UNCHANGED <<screen, popup, menu_selected, input, should_quit, status, panicked>>
    /\ UNCHANGED <<botVars, pipeVars, queueVars, sysVars, syncVars, schedVars, clockVars,
                   textVars, lockVars, serverVars, observerVars, wireVars>>

CommandKeys ==
    {CtrlC} \cup {Key(code) : code \in {"Up", "Down", "Enter", "Esc", "Backspace", "F1"}}
CharKeys == {CharKey("q"), CharKey(" ")}
UiTables == NamedTables({HumanA, HumanB})

\* With the lock poisoned the closure of sync_from_tables does not run: the
\* reconciler is left out then.
NextUi ==
    \/ \E key \in CommandKeys, reducer_ok \in BOOLEAN : HandleKeyEvent(key, reducer_ok)
    \/ Len(input) < MaxInputLen /\ \E key \in CharKeys : HandleKeyEvent(key, TRUE)
    \/ LockPoisoned
    \/ ~poisoned /\ \E rows \in UiTables : SubscriptionApplied(rows)
    \/ ~poisoned /\ CanReconcile /\ \E rows \in UiTables : UserTableChanged(rows)

SpecUi == Init /\ [][NextUi]_vars

\* ------------------------------------------ proactive specification
\* The loop with a clock: the bots connect as whole handlers, a human writes
\* between two iterations, replies wait on the queues of bots that are not
\* online yet.
ClockSteps == {6, 12}
ProactiveLiveBots == {1, 2}
ProactiveRequestBots == {2}

NextProactive ==
    \/ \E rows \in ChainTables : SubscriptionApplied(rows)
    \/ /\ loop_pc = "top"
       /\ initialized_seen
       /\ Len(remote_message) < MaxProactiveMessages
       /\ MessageInserted(HumanA, TextOi)
    \/ \E b \in ProactiveLiveBots : BotOnConnect(b)
    \/ /\ next_request < MaxProactiveRequests
       /\ \E b \in ProactiveRequestBots : request_bot_reply(b)
    \/ \E w \in workers : WorkerReplyOk(w)
    \/ loop_pc = "top" /\ MainLoopDrain
    \/ \E seconds \in ClockSteps : now + seconds <= MaxClock /\ TimePasses(seconds)
    \/ SchedulerSnapshot
    \/ SchedulerMessage
    \/ SchedulerFinish

SpecProactive == Init /\ [][NextProactive]_vars

\* ------------------------------------------- claims on the proactive starter
\* C16: a step dispatches a proactive request only when, in the state it
\* starts from, two bots are online, every pending queue is empty, the
\* cooldown has elapsed since the last attempt and the idle window since the
\* last chat activity, and the draw succeeded; the first iteration of the loop
\* dispatches none.
C16_Step ==
    /\ ~initialized_seen => proactive' = proactive
    /\ proactive' # proactive =>
           /\ proactive'.kind = "dispatched"
           /\ Cardinality({b \in Bots : online[b]}) >= 2
           /\ \A name \in BotNames : pending_ai_replies[name] = <<>>
           /\ now - last_proactive_attempt >= AI_PROACTIVE_COOLDOWN_SECS
           /\ now - last_chat_activity >= AI_PROACTIVE_IDLE_SECS
           /\ proactive'.draw = "yes"

C16_ProactiveGates == [][C16_Step]_vars

\* A proactive request was dispatched after a human's message had reset the
\* idle window.
C16_Witness ==
    /\ proactive.kind = "dispatched"
    /\ decision.kind = "processed"
    /\ proactive.at >= AI_PROACTIVE_COOLDOWN_SECS

\* ------------------------------------------------- claims on the keyboard
\* C15: while the lock of the shared state is poisoned no step changes the
\* shared state and no step makes the client panic.
C15_Step ==
    poisoned => (~panicked' /\ UNCHANGED <<UiNow, sysVars, ui_users, ai_histories>>)

C15_PoisonedLockHarmless == [][C15_Step]_vars

\* ------------------------------------------ timeline specification
\* The reconciler on the human connection's thread and the error notices of
\* the worker threads, both writing the log of local messages.
TimelineTables == NamedTables({HumanA})

NextTimeline ==
    \/ \E rows \in TimelineTables : SubscriptionApplied(rows)
    \/ CanReconcile /\ \E rows \in TimelineTables : UserTableChanged(rows)
    \/ CanReconcile /\ MessageInserted(HumanA, TextOi)
    \/ \E b \in Bots : RequestBotReply(b)
    \/ \E w \in workers : WorkerReplyErr(w)

SpecTimeline == Init /\ [][NextTimeline]_vars

\* ------------------------------------------ history specification
\* Many requests for one bot, some of them at the same time, so that its
\* history goes past MAX_HISTORY_ENTRIES.
HistoryBots == {1}

NextHistory ==
    \/ /\ next_request < MaxHistoryRequests
       /\ Cardinality(workers) < MaxHistoryWorkers
       /\ \E b \in HistoryBots : request_bot_reply(b)
    \/ \E w \in workers : WorkerReplyOk(w)
    \/ \E w \in workers : WorkerReplyErr(w)

SpecHistory == Init /\ [][NextHistory]_vars

\* ----------------------------------------------- claims on the pipeline
IsErrorNotice(m) == \E b \in Bots : m.text = ErrorText(ProfileName(b))

C13_Capped == \A name \in BotNames : Len(ai_histories[name]) <= MAX_HISTORY_ENTRIES

\* The turns a step appends to the history of the bot called name: the User
\* turn of a request made for it, the Assistant turn of a reply sent for it.
C13_Appended(name) ==
    IF next_request' # next_request
    THEN LET w == CHOOSE x \in workers' : x.id = next_request'
         IN IF w.bot_name = name
            THEN <<[role |-> "User", content |-> IncomingText(w.id)]>> ELSE <<>>
    ELSE IF Len(ai_reply_rx') > Len(ai_reply_rx)
    THEN LET reply == ai_reply_rx'[Len(ai_reply_rx')]
         IN IF reply.bot_name = name
            THEN <<[role |-> "Assistant", content |-> reply.text]>> ELSE <<>>
    ELSE <<>>

\* After a step a history is the old one followed by the turns appended, cut
\* at the front down to the cap.
C13_Step ==
    \A name \in BotNames :
        LET full == ai_histories[name] \o C13_Appended(name)
            kept == Min(Len(full), MAX_HISTORY_ENTRIES)
        IN ai_histories'[name] = SubSeq(full, Len(full) - kept + 1, Len(full))

\* C13: a bot's history never holds more than MAX_HISTORY_ENTRIES entries, and
\* an append that goes past the cap evicts the oldest entries and keeps the
\* others in their order.
C13_HistoryCapped == []C13_Capped /\ [][C13_Step]_vars

\* A full history that has lost its first entry and holds two User turns in a
\* row, from requests made at the same time.
C13_Witness ==
    \E name \in BotNames :
        LET history == ai_histories[name]
        IN /\ Len(history) = MAX_HISTORY_ENTRIES
           /\ history[1].content # IncomingText(1)
           /\ \E i \in 1..(Len(history) - 1) :
                  history[i].role = "User" /\ history[i + 1].role = "User"

\* A worker thread ends in a step that takes it out of workers: with a reply
\* on the channel when generation succeeded, without one when it failed.
C14_Step ==
    \A w \in workers \ workers' :
        IF Len(ai_reply_rx') > Len(ai_reply_rx)
        THEN LET reply == ai_reply_rx'[Len(ai_reply_rx')]
                 history == ai_histories'[w.bot_name]
             IN /\ ai_reply_rx' = Append(ai_reply_rx, reply)
                /\ reply.bot_name = w.bot_name
                /\ history # <<>>
                /\ history[Len(history)] = [role |-> "Assistant", content |-> reply.text]
                /\ UNCHANGED <<sysVars, queueVars>>
        ELSE /\ Len(system_messages') = Len(system_messages) + 1
             /\ contains(system_messages'[Len(system_messages')].text, w.bot_name)
             /\ FilterRemote(ui_messages') = FilterRemote(ui_messages)
             /\ SelectSeq(ui_messages', LAMBDA m : m.id >= SYSTEM_MESSAGE_ID_BASE)
                    = system_messages'
             /\ UNCHANGED <<ai_reply_rx, ai_histories, queueVars, botVars>>

\* C14: a request that succeeds appends the reply as an Assistant turn to the
\* bot's history and sends it on the channel tagged with the bot; one that
\* fails adds exactly one system message naming the bot to the timeline, sends
\* nothing, appends no Assistant turn and leaves the main loop's state alone.
C14_RequestOutcome == [][C14_Step]_vars

\* One request has failed and another has succeeded.
C14_Witness ==
    /\ \E i \in 1..Len(ui_messages) : IsErrorNotice(ui_messages[i])
    /\ \E name \in BotNames : \E i \in 1..Len(ai_histories[name]) :
           ai_histories[name][i].role = "Assistant"

\* ------------------------------------------------- claims on the timeline
\* C11: every local message has an id at or above SYSTEM_MESSAGE_ID_BASE, the
\* ids grow strictly in the order the messages were created (the log is in
\* that order and the next id is above all of them), and no remote message
\* has an id in that range.
C11_SyntheticIds ==
    /\ \A i \in 1..Len(system_messages) :
           /\ system_messages[i].id >= SYSTEM_MESSAGE_ID_BASE
           /\ system_messages[i].id < SYSTEM_MESSAGE_ID_BASE + next_system_message_id
    /\ \A i, j \in 1..Len(system_messages) :
           i < j => system_messages[i].id < system_messages[j].id
    /\ \A i \in 1..Len(db_message) : db_message[i].id < SYSTEM_MESSAGE_ID_BASE

\* A presence notice and an error notice have both been created.
C11_Witness ==
    \E i, j \in 1..Len(system_messages) :
        /\ IsErrorNotice(system_messages[i])
        /\ ~IsErrorNotice(system_messages[j])

C12_Sorted ==
    \A i, j \in 1..Len(ui_messages) :
        i < j => /\ ui_messages[i].id <= ui_messages[j].id
                 /\ ~(ui_messages[i].id >= SYSTEM_MESSAGE_ID_BASE
                        /\ ui_messages[j].id < SYSTEM_MESSAGE_ID_BASE)

\* A step of add_local_system_message: a worker ends with a notice.
C12_Step ==
    (workers' # workers /\ next_system_message_id' # next_system_message_id) =>
        FilterRemote(ui_messages') = FilterRemote(ui_messages)

\* C12: the timeline is always sorted by id, remote messages before local
\* ones, and add_local_system_message keeps the remote messages it holds.
C12_TimelineSorted == []C12_Sorted /\ [][C12_Step]_vars

\* An error notice was added to a timeline that holds a remote message.
C12_Witness ==
    /\ \E i \in 1..Len(ui_messages) : ui_messages[i].id < SYSTEM_MESSAGE_ID_BASE
    /\ \E i \in 1..Len(ui_messages) : IsErrorNotice(ui_messages[i])
    /\ ~IsErrorNotice(ui_messages[1])

\* ------------------------------------------------- claims on the scheduler
\* decision is the record of the last message the scheduler went through:
\* the message, whether its sender was an online user of the snapshot that is
\* no bot, the counter before and after it, the online flags read when
\* the responder was selected, the result of find_directed_bot, the draw of
\* random_bool and the bot request_bot_reply was called for (0: no call).
HumanIdentities == {HumanA, HumanB}

BotAuthoredAtCap ==
    /\ decision.kind = "processed"
    /\ decision.ai
    /\ decision.chain >= MAX_AI_CHAIN_MESSAGES

\* C3 as stated: when the scheduler processes a bot-authored message and the
\* counter, incremented for that message, has reached MAX_AI_CHAIN_MESSAGES,
\* no bot is selected and no reply request is dispatched.
C3_NoDispatchAtCap == BotAuthoredAtCap => decision.chosen = 0

\* C3 amended: at the cap choose_responder_bot selects nobody and makes no
\* probability draw; a reply request is dispatched for a bot-authored message
\* at the cap only to the bot find_directed_bot returned for it.
C3_ChainControl ==
    BotAuthoredAtCap =>
        /\ decision.draw = "none"
        /\ decision.chosen = decision.directed

\* A bot-authored message without a directed mention reaches the cap while
\* another bot is online.
C3_Witness ==
    /\ BotAuthoredAtCap
    /\ decision.directed = 0
    /\ \E b \in decision.online : BotIdentity(b) # decision.sender

\* The bots a message names, among those online when it was processed, the
\* sender left out.
NamedOnlineBots ==
    {b \in decision.online :
        /\ BotIdentity(b) # decision.sender
        /\ contains(to_lowercase(decision.text), to_lowercase(ProfileName(b)))}

\* C4: a qualifying message whose text contains, whatever the case, the name
\* of an online bot other than its sender gets a reply request for the first
\* such bot in bot order, and no probability draw is made.
C4_DirectedMention ==
    (decision.kind = "processed" /\ NamedOnlineBots # {}) =>
        /\ decision.chosen = FirstOf(NamedOnlineBots)
        /\ decision.draw = "none"

\* C5: no reply request is dispatched for a bot in response to a message sent
\* by that bot's own connection identity.
C5_NoSelfReply ==
    decision.chosen # 0 => decision.sender # BotIdentity(decision.chosen)

HumanMessageNoMention ==
    /\ decision.kind # "none"
    /\ decision.sender \in HumanIdentities
    /\ decision.human_online
    /\ ~trim_is_empty(decision.text)
    /\ decision.directed = 0

C8_NoRetroactiveTrigger ==
    decision.chosen # 0 => decision.id \notin preexisting

\* ------------------------------------------------ claims on the reconciler
SyntheticOf(ms) == SelectSeq(ms, LAMBDA m : m.id >= SYSTEM_MESSAGE_ID_BASE)

\* C9, one step: a reconciliation that finds users_presence_initialized false
\* adds no synthetic message to the log or the timeline, however many users
\* the snapshot shows online, and leaves the flag true.
C9_Step ==
    (reconciled' # reconciled /\ ~users_presence_initialized) =>
        /\ system_messages' = system_messages
        /\ next_system_message_id' = next_system_message_id
        /\ SyntheticOf(ui_messages') = SyntheticOf(ui_messages)
        /\ users_presence_initialized'

\* C9: the very first reconciliation appends zero presence messages and sets
\* users_presence_initialized.
C9_FirstReconciliationSilent == [][C9_Step]_vars

\* C9 witness: after the first reconciliation, two users are online and the
\* log is empty.
C9_Witness ==
    /\ reconciled = 1
    /\ users_presence_initialized
    /\ Len(ui_users) = 2
    /\ \A i \in 1..Len(ui_users) : ui_users[i].online
    /\ system_messages = <<>>

OnlineIdentities(users) == {u.identity : u \in {r \in Range(users) : r.online}}

RowOf(users, id) == CHOOSE r \in Range(users) : r.identity = id

\* C10, one step: the texts a later reconciliation appends to the log are, as
\* a multiset, one "<name> connected" per identity online in the new list and
\* not in the previous one, and one "<name> disconnected" per identity online
\* in the previous list and not in the new one.
C10_Step ==
    (reconciled' # reconciled /\ users_presence_initialized) =>
        LET came == OnlineIdentities(ui_users') \ OnlineIdentities(ui_users)
            left == OnlineIdentities(ui_users) \ OnlineIdentities(ui_users')
            appended == TextsOf(SubSeq(system_messages', Len(system_messages) + 1,
                                       Len(system_messages')))
            expected == {ConnectedText(RowOf(ui_users', id)) : id \in came}
                            \cup {DisconnectedText(RowOf(ui_users, id)) : id \in left}
        IN /\ IsPrefix(system_messages, system_messages')
           /\ Len(appended) = Cardinality(came) + Cardinality(left)
           /\ \A t \in Range(appended) \cup expected :
                  SeqToBagCount(appended, t) =
                      Cardinality({id \in came : ConnectedText(RowOf(ui_users', id)) = t})
                      + Cardinality({id \in left : DisconnectedText(RowOf(ui_users, id)) = t})

\* C10: after the first reconciliation, the presence messages appended are
\* exactly one per online-status transition.
C10_OneEventPerTransition == [][C10_Step]_vars

\* C10 witness: one later reconciliation appended a "connected" and a
\* "disconnected" notice, the second for a user shown by a shortened identity.
C10_Witness ==
    /\ reconciled = 2
    /\ Len(system_messages) = 2
    /\ system_messages[1].text = NameAna \o <<" ", "c", "o", "n", "n", "e", "c", "t", "e", "d">>
    /\ system_messages[2].text =
           (SubSeq(HumanB, 1, 10) \o <<".", ".">> \o SubSeq(HumanB, 15, 20))
               \o <<" ", "d", "i", "s", "c", "o", "n", "n", "e", "c", "t", "e", "d">>

\* ------------------------------------------------- claims on the delivery
\* The texts waiting on the channel under the name key, oldest first.
WaitingFor(key) ==
    TextsOf(SelectSeq(ai_reply_rx, LAMBDA r : r.bot_name = key))

\* C1: per-bot delivery is FIFO.  For every bot, the texts its connection's
\* send_message accepted, followed by the texts still on its queue, are exactly
\* the texts pushed on its queue, in the order they were pushed: none is
\* skipped, none overtakes an earlier one.
C1_PerBotFifo ==
    \A b \in Bots :
        enqueued[QueueKey(b)] = accepted[b] \o pending_ai_replies[QueueKey(b)]

\* C1 witness: the worker of the second request finished first, and both
\* replies of one bot were accepted in the order they reached its queue.
C1_Witness ==
    \E b \in Bots : accepted[b] = <<ReplyText(2), ReplyText(1)>>

\* C2, the calls of the latest drain: a failed send is the last call made for
\* its bot and its reply is still at the head of that bot's queue.
C2_FailedStaysAtHead ==
    \A i \in 1..Len(send_log) :
        ~send_log[i].ok =>
            /\ \A j \in (i + 1)..Len(send_log) : send_log[j].bot # send_log[i].bot
            /\ pending_ai_replies[QueueKey(send_log[i].bot)] # <<>>
            /\ Head(pending_ai_replies[QueueKey(send_log[i].bot)]) = send_log[i].text

\* C2, one step: whatever leaves bot b's queue is what b's send_message
\* accepted in that step, taken from the front, with b's online flag true; a
\* step that makes send calls makes none for a bot whose flag is false, whose
\* queue only receives what was waiting on the channel.
C2_Step ==
    /\ \A b \in Bots :
           LET key == QueueKey(b)
               before == pending_ai_replies[key] \o WaitingFor(key)
               calls == SelectSeq(send_log', LAMBDA c : c.bot = b)
               sent == TextsOf(SelectSeq(calls, LAMBDA c : c.ok))
           IN /\ pending_ai_replies'[key] # pending_ai_replies[key] =>
                    /\ before = sent \o pending_ai_replies'[key]
                    /\ sent # <<>> => online[b]
              /\ (send_log' # send_log /\ ~online[b]) =>
                    /\ calls = <<>>
                    /\ pending_ai_replies'[key] = before
    /\ C2_FailedStaysAtHead'

\* C2: a reply leaves a queue only by a successful send of that reply while
\* its bot is online; a failed send leaves it at the head and ends the bot's
\* sends for the tick; an offline bot's queue is not touched by the sends.
C2_RemovedOnlyOnSuccess == [][C2_Step]_vars

\* C2 witness: a send has just failed and its reply is still first in line,
\* with a second reply of the same bot waiting behind it.
C2_Witness ==
    \E i \in 1..Len(send_log) :
        /\ ~send_log[i].ok
        /\ Len(pending_ai_replies[QueueKey(send_log[i].bot)]) = 2
        /\ Head(pending_ai_replies[QueueKey(send_log[i].bot)]) = send_log[i].text

\* The bot request n was made for: the one whose history holds its User turn.
RequestedFor(n, b) ==
    \E i \in 1..Len(ai_histories[ProfileName(b)]) :
        ai_histories[ProfileName(b)][i] = [role |-> "User", content |-> IncomingText(n)]

\* C7: reply routing.  The reply generated for a request made for bot b is
\* tagged with b's name on the channel, is pushed on no queue but b's, and is
\* handed to no connection but b's.
C7_ReplyRouting ==
    \A n \in 1..next_request : \A b \in Bots :
        RequestedFor(n, b) =>
            /\ \A i \in 1..Len(ai_reply_rx) :
                   ai_reply_rx[i].text = ReplyText(n) =>
                       ai_reply_rx[i].bot_name = ProfileName(b)
            /\ \A key \in DOMAIN pending_ai_replies :
                   (InSeq(ReplyText(n), pending_ai_replies[key])
                       \/ InSeq(ReplyText(n), enqueued[key])) => key = ProfileName(b)
            /\ \A c \in Bots : InSeq(ReplyText(n), accepted[c]) => c = b
            /\ \A i \in 1..Len(send_log) :
                   send_log[i].text = ReplyText(n) => send_log[i].bot = b

\* C7 witness: the later request's worker finished first; its reply went out
\* through its own bot while the other bot's reply waits on that bot's queue.
C7_Witness ==
    \E b, c \in Bots :
        /\ b # c
        /\ RequestedFor(2, b) /\ RequestedFor(1, c)
        /\ accepted[b] = <<ReplyText(2)>>
        /\ enqueued[QueueKey(c)] = <<ReplyText(1)>>
        /\ pending_ai_replies[QueueKey(c)] = <<ReplyText(1)>>

\* ------------------------------------------------------- text functions
Ellipsis == <<".", ".", ".">>
IsTerminator(c) == c \in {".", "!", "?"}

\* Mutant: the tail is cut two characters longer.
text_short_identity_long_tail(id) ==
    IF Len(id) <= 18 THEN id
    ELSE SubSeq(id, 1, Min(10, Len(id))) \o <<".", ".">>
             \o SubSeq(id, Max(Len(id) - 8, 0) + 1, Len(id))

\* ai/text.rs short_identity: the copy the prompt context uses.
text_short_identity(id) ==
    IF Len(id) <= 18 THEN id
    ELSE SubSeq(id, 1, Min(10, Len(id))) \o <<".", ".">>
             \o SubSeq(id, Max(Len(id) - 6, 0) + 1, Len(id))

\* text.replace('\n', " ")
replace_newlines(text) == [i \in 1..Len(text) |-> IF text[i] = "\n" THEN " " ELSE text[i]]

\* Mutant: the text is not trimmed.
truncate_for_context_untrimmed(text, max_chars) ==
    LET clean == replace_newlines(text)
    IN IF Len(clean) <= max_chars THEN clean
       ELSE SubSeq(clean, 1, max_chars) \o Ellipsis

truncate_for_context(text, max_chars) ==
    LET clean == trim(replace_newlines(text))
        char_count == Len(clean)
    IN IF char_count <= max_chars THEN clean
       ELSE SubSeq(clean, 1, max_chars) \o Ellipsis

\* text.split_whitespace().collect::<Vec<_>>().join(" "): the characters of
\* the words are kept, and one space stands for each run of whitespace that
\* has a word before it and a word after it.
split_whitespace_join(text) ==
    LET in_word == {i \in 1..Len(text) : ~IsWhitespace(text[i])}
        marked == [i \in 1..Len(text) |->
                     IF i \in in_word
                     THEN [c |-> text[i], keep |-> TRUE]
                     ELSE [c |-> " ",
                           keep |-> /\ (i - 1) \in in_word
                                    /\ \E j \in in_word : j > i]]
        kept == SelectSeq(marked, LAMBDA m : m.keep)
    IN [i \in 1..Len(kept) |-> kept[i].c]

\* Mutant: the reply is not cut after the second terminator.
normalize_reply_all_sentences(text) ==
    LET compact == split_whitespace_join(text)
    IN IF Len(compact) > MAX_REPLY_CHARS
       THEN LET cut == SubSeq(compact, 1, MAX_REPLY_CHARS)
            IN IF ~IsTerminator(cut[Len(cut)]) THEN cut \o Ellipsis ELSE cut
       ELSE compact

normalize_reply(text) ==
    LET compact == split_whitespace_join(text)
        terminators == {i \in 1..Len(compact) : IsTerminator(compact[i])}
        \* the loop breaks at the second terminator it meets
        end_idx ==
            IF Cardinality(terminators) >= 2
            THEN CHOOSE i \in terminators :
                     Cardinality({j \in terminators : j < i}) = 1
            ELSE Len(compact)
        two_sentences == trim(SubSeq(compact, 1, end_idx))
        out ==
            IF Len(two_sentences) > MAX_REPLY_CHARS
            THEN LET cut == SubSeq(two_sentences, 1, MAX_REPLY_CHARS)
                 IN IF ~IsTerminator(cut[Len(cut)]) THEN cut \o Ellipsis ELSE cut
            ELSE two_sentences
    IN IF compact = <<>> THEN <<>>
       ELSE IF out = <<>>
            THEN SubSeq(compact, 1, Min(MAX_REPLY_CHARS, Len(compact)))
            ELSE out

\* ----------------------------------------------------- room context
\* users_by_identity.get(identity).map(str::trim).filter(non-empty), or else
\* the shortened identity.
context_name(users, id) ==
    IF \E i \in 1..Len(users) :
           users[i].identity = id /\ ~trim_is_empty(users[i].name)
    THEN trim(users[CHOOSE i \in 1..Len(users) :
                        users[i].identity = id /\ ~trim_is_empty(users[i].name)].name)
    ELSE text_short_identity(id)

\* One entry of online_users: "{name} ({short identity})".
online_user_line(u) ==
    (IF trim_is_empty(u.name) THEN text_short_identity(u.identity) ELSE u.name)
        \o <<" ", "(">> \o text_short_identity(u.identity) \o <<")">>

\* One entry of recent_messages: "{sender}: {text}", after "[{sent_at}] "
\* when the message has a timestamp.
recent_message_line(users, m) ==
    LET sender == context_name(users, m.sender)
        text == truncate_for_context(m.text, MAX_CONTEXT_MESSAGE_LEN)
        line == sender \o <<":", " ">> \o text
    IN IF trim_is_empty(m.sent_at) THEN line
       ELSE <<"[">> \o trim(m.sent_at) \o <<"]", " ">> \o line

\* Mutant: the sender of a message is not looked up among the online users.
context_messages_from_anyone(users, messages) ==
    LET qualifying == SelectSeq(messages, LAMBDA m : ~trim_is_empty(m.text))
    IN SubSeq(qualifying, Max(Len(qualifying) - MAX_CONTEXT_MESSAGES, 0) + 1,
              Len(qualifying))

\* The messages behind recent_messages: iter().rev(), the two filters,
\* take(MAX_CONTEXT_MESSAGES), and the final reverse().
context_messages(users, messages) ==
    LET online_identities ==
            {users[i].identity : i \in {j \in 1..Len(users) : users[j].online}}
        qualifying ==
            SelectSeq(messages,
                LAMBDA m : /\ ~trim_is_empty(m.text)
                           /\ (m.sender = SystemSender \/ m.sender \in online_identities))
    IN SubSeq(qualifying, Max(Len(qualifying) - MAX_CONTEXT_MESSAGES, 0) + 1,
              Len(qualifying))

\* build_prompt_context(state) on state.ui.users and state.ui.messages.  The
\* field chosen is not part of AiPromptContext: it keeps the messages that the
\* lines of recent_messages were made from.
build_prompt_context(users, messages) ==
    LET present == SelectSeq(users, LAMBDA u : u.online)
        chosen == context_messages(users, messages)
    IN [online_users |-> [i \in 1..Len(present) |-> online_user_line(present[i])],
        recent_messages |->
            [i \in 1..Len(chosen) |-> recent_message_line(users, chosen[i])],
        chosen |-> chosen]

\* ------------------------------------------- text function specification
\* Each action is one call of a text function on an input drawn from a
\* bounded family; call keeps the input and the result.
TextsOver(alphabet, n) == UNION {[1..k -> alphabet] : k \in 0..n}

HexDigits == <<"0", "1", "2", "3", "4", "5", "6", "7",
               "8", "9", "a", "b", "c", "d", "e", "f">>
\* Identity::to_hex(): hexadecimal digits.
IdentityOf(n, k) == [i \in 1..n |-> HexDigits[((i + k) % 16) + 1]]
IdentityInputs ==
    {IdentityOf(n, k) : n \in 0..MaxIdentityLen, k \in 0..2} \cup {HumanA, HumanB}

TruncateAlphabet == {"a", "b", " ", "\n"}
TruncateInputs == TextsOver(TruncateAlphabet, MaxTextLen)

ReplyAlphabet == {"a", " ", "\n", ".", "?"}
\* A long reply: letters, with the characters c and d at the places p and q.
LongReply(n, p, c, q, d) ==
    [i \in 1..n |-> IF i = p THEN c ELSE IF i = q THEN d ELSE "a"]
ReplyInputs ==
    TextsOver(ReplyAlphabet, MaxReplyLen)
        \cup {LongReply(n, p, c, q, d) :
                 n \in (MAX_REPLY_CHARS - 1)..(MAX_REPLY_CHARS + MaxReplyExcess),
                 p \in {2, MAX_REPLY_CHARS},
                 c \in {"a", "!", " "},
                 q \in {MAX_REPLY_CHARS - 1, MAX_REPLY_CHARS + 1},
                 d \in {"a", ".", " "}}

\* The users panel as sync_from_tables leaves it, over two humans.
ContextUsers ==
    {SortUsers(order) :
        order \in UNION {IterationsOf(rows) : rows \in NamedTables({HumanA, HumanB})}}

TimeStamp == <<"1", "2", ":", "0", "0">>
\* The timeline as rebuild_messages_with_system leaves it: n remote messages,
\* every k-th of them sent by HumanB and the others by HumanA, and then j
\* local notices.
ContextTimeline(n, k, j) ==
    [i \in 1..(n + j) |->
        IF i <= n
        THEN [id |-> i, sender |-> IF i % k = 0 THEN HumanB ELSE HumanA,
              text |-> TextOi, sent_at |-> TimeStamp]
        ELSE [id |-> SYSTEM_MESSAGE_ID_BASE + (i - n) - 1, sender |-> SystemSender,
              text |-> DisconnectedText([identity |-> HumanB, name |-> NameBlank]),
              sent_at |-> <<>>]]
ContextTimelines ==
    {ContextTimeline(n, k, j) : n \in 0..MaxContextInput, k \in 1..4, j \in 0..2}

\* A call that has been made and has not returned yet.
Called(fn, arg, max_chars) ==
    [fn |-> fn, pc |-> "called", arg |-> arg, max_chars |-> max_chars, result |-> <<>>]

TextCalls ==
    {Called(fn, id, 0) :
        fn \in {"text::short_identity", "sync::short_identity"}, id \in IdentityInputs}
        \cup {Called("truncate_for_context", text, max_chars) :
                 text \in TruncateInputs, max_chars \in 0..MaxTextLen}
        \cup {Called("normalize_reply", text, 0) : text \in ReplyInputs}
        \cup {Called("build_prompt_context", [users |-> users, messages |-> messages], 0) :
                 users \in ContextUsers, messages \in ContextTimelines}

InitTextCalls == InitProgram /\ remote_message = <<>> /\ call \in TextCalls

Returns(result) ==
    /\ call.pc = "called"
    /\ call' = [call EXCEPT !.pc = "returned", !.result = result]
    /\ UNCHANGED <<botVars, pipeVars, queueVars, sysVars, syncVars, schedVars,
                   clockVars, uiVars, lockVars, serverVars, observerVars, wireVars>>

CallTextShortIdentity ==
    call.fn = "text::short_identity" /\ Returns(text_short_identity(call.arg))

CallSyncShortIdentity ==
    call.fn = "sync::short_identity" /\ Returns(short_identity(call.arg))

CallTruncateForContext ==
    /\ call.fn = "truncate_for_context"
    /\ Returns(truncate_for_context(call.arg, call.max_chars))

CallNormalizeReply ==
    call.fn = "normalize_reply" /\ Returns(normalize_reply(call.arg))

CallBuildPromptContext ==
    /\ call.fn = "build_prompt_context"
    /\ Returns(build_prompt_context(call.arg.users, call.arg.messages))

NextText ==
    \/ CallBuildPromptContext
    \/ CallTextShortIdentity
    \/ CallSyncShortIdentity
    \/ CallTruncateForContext
    \/ CallNormalizeReply

SpecText == InitTextCalls /\ [][NextText]_vars

\* ------------------------------------------- claims on the text functions
\* C20: for every id string of at most 18 characters short_identity
\* returns it unchanged; for every longer one it returns the first 10
\* characters, then "..", then the last 6 characters, so the result never has
\* more than 18 characters.
Returned(fns) == call.pc = "returned" /\ call.fn \in fns

C20_ShortIdentity ==
    Returned({"text::short_identity", "sync::short_identity"}) =>
        LET id == call.arg
            n == Len(id)
            result == call.result
        IN /\ n <= 18 => result = id
           /\ n > 18 =>
                 /\ Len(result) = 18
                 /\ \A i \in 1..10 : result[i] = id[i]
                 /\ result[11] = "." /\ result[12] = "."
                 /\ \A i \in 1..6 : result[12 + i] = id[n - 6 + i]
           /\ Len(result) <= 18

\* A 24-digit id has been shortened to its two ends.
C20_Witness ==
    /\ Returned({"text::short_identity"})
    /\ Len(call.arg) = 24
    /\ call.result # call.arg
    /\ Len(call.result) = 18

\* The text with each newline replaced by a space, and without the whitespace
\* at its two ends.
FlatTrimmed(text) ==
    LET flat == [i \in 1..Len(text) |-> IF text[i] = "\n" THEN " " ELSE text[i]]
        word == {i \in 1..Len(text) : ~IsWhitespace(flat[i])}
    IN IF word = {} THEN <<>>
       ELSE SubSeq(flat, CHOOSE i \in word : \A j \in word : i <= j,
                         CHOOSE i \in word : \A j \in word : j <= i)

\* C19 as stated: a text of at most max_chars characters comes back unchanged
\* except that each newline is a space; a longer text comes back as its first
\* max_chars characters followed by "...".
C19_Truncation ==
    Returned({"truncate_for_context"}) =>
        LET text == call.arg
            max_chars == call.max_chars
            result == call.result
            Same(i) == \/ result[i] = text[i]
                       \/ text[i] = "\n" /\ result[i] = " "
        IN IF Len(text) <= max_chars
           THEN /\ Len(result) = Len(text)
                /\ \A i \in 1..Len(text) : Same(i) /\ result[i] # "\n"
           ELSE /\ Len(result) = max_chars + 3
                /\ \A i \in 1..max_chars : Same(i)
                /\ SubSeq(result, max_chars + 1, max_chars + 3) = Ellipsis

\* C19, amended: the text is first rid of its newlines (each becomes a space)
\* and of the whitespace at its two ends; what is left comes back whole when it
\* has at most max_chars characters, and otherwise as its first max_chars
\* characters followed by "...".
C19_TruncationTrimmed ==
    Returned({"truncate_for_context"}) =>
        LET clean == FlatTrimmed(call.arg)
            max_chars == call.max_chars
        IN IF Len(clean) <= max_chars
           THEN call.result = clean
           ELSE call.result = SubSeq(clean, 1, max_chars) \o Ellipsis

\* A text that begins with a space and ends with a newline, cut after the
\* first character left by the trimming.
C19_Witness ==
    /\ Returned({"truncate_for_context"})
    /\ call.arg = <<" ", "a", "\n">>
    /\ call.max_chars = 2
    /\ call.result = <<"a">>

\* The text with every run of whitespace between two words made one space,
\* and without the whitespace at its two ends.
Collapsed(text) ==
    LET flat == [i \in 1..Len(text) |-> IF IsWhitespace(text[i]) THEN " " ELSE text[i]]
        runs == [i \in 1..Len(text) |->
                   [c |-> flat[i],
                    first |-> flat[i] # " " \/ (i > 1 /\ flat[i - 1] # " ")]]
        firsts == SelectSeq(runs, LAMBDA r : r.first)
        squeezed == [i \in 1..Len(firsts) |-> firsts[i].c]
    IN IF squeezed # <<>> /\ squeezed[Len(squeezed)] = " "
       THEN SubSeq(squeezed, 1, Len(squeezed) - 1)
       ELSE squeezed

\* The first two sentence-terminated clauses of a text: the text up to its
\* second terminator, or all of it when it has fewer than two.
TwoClauses(text) ==
    LET terminators == {i \in 1..Len(text) : IsTerminator(text[i])}
    IN IF Cardinality(terminators) >= 2
       THEN SubSeq(text, 1,
                CHOOSE i \in terminators :
                    \E j \in terminators :
                        j < i /\ \A k \in terminators : k >= j /\ (k > j => k >= i))
       ELSE text

OnlineInContext(users) ==
    {users[i].identity : i \in {j \in 1..Len(users) : users[j].online}}

\* The online-user list has one entry for each user with online = true, in
\* the order of the panel, and none for the others.
OnlineListExact(users, online_users) ==
    LET present == {i \in 1..Len(users) : users[i].online}
    IN /\ Len(online_users) = Cardinality(present)
       /\ \A i \in present :
             contains(online_users[Cardinality({j \in present : j <= i})],
                      <<"(">> \o text_short_identity(users[i].identity) \o <<")">>)
       /\ \A i \in (1..Len(users)) \ present : \A n \in 1..Len(online_users) :
             ~contains(online_users[n], text_short_identity(users[i].identity))

\* The transcript is made from the most recent MAX_CONTEXT_MESSAGES messages
\* among those at the places qualifying, oldest first.
MostRecentOf(context, messages, qualifying) ==
    LET recent == {i \in qualifying :
                      Cardinality({j \in qualifying : j > i}) < MAX_CONTEXT_MESSAGES}
        Place(n) == CHOOSE i \in recent : Cardinality({j \in recent : j < i}) = n - 1
    IN /\ Len(context.recent_messages) <= MAX_CONTEXT_MESSAGES
       /\ Len(context.recent_messages) = Cardinality(recent)
       /\ Len(context.chosen) = Cardinality(recent)
       /\ \A n \in 1..Cardinality(recent) :
             /\ context.chosen[n] = messages[Place(n)]
             /\ contains(context.recent_messages[n],
                         <<":", " ">> \o messages[Place(n)].text)
       /\ \A n \in 1..(Len(context.chosen) - 1) :
             context.chosen[n].id < context.chosen[n + 1].id

\* C17 as stated: the online-user list has exactly the users with
\* online = true; every message of the transcript has a sender that is a
\* user online now, even when offline users have messages in the timeline; the
\* transcript has at most MAX_CONTEXT_MESSAGES entries, the most recent
\* messages of online senders, in chronological order.
C17_ContextExcludesOffline ==
    Returned({"build_prompt_context"}) =>
        LET users == call.arg.users
            messages == call.arg.messages
        IN /\ OnlineListExact(users, call.result.online_users)
           /\ \A n \in 1..Len(call.result.chosen) :
                 call.result.chosen[n].sender \in OnlineInContext(users)
           /\ MostRecentOf(call.result, messages,
                 {i \in 1..Len(messages) :
                     messages[i].sender \in OnlineInContext(users)})

\* C17, amended: the online-user list has exactly the users with
\* online = true; every message of the transcript is a local System notice or
\* has a sender that is a user online now, even when offline users have
\* messages in the timeline; the transcript has at most MAX_CONTEXT_MESSAGES
\* entries, the most recent of those messages, in chronological order.
C17_ContextOnlineOrSystem ==
    Returned({"build_prompt_context"}) =>
        LET users == call.arg.users
            messages == call.arg.messages
        IN /\ OnlineListExact(users, call.result.online_users)
           /\ \A n \in 1..Len(call.result.chosen) :
                 \/ call.result.chosen[n].sender = SystemSender
                 \/ call.result.chosen[n].sender \in OnlineInContext(users)
           /\ MostRecentOf(call.result, messages,
                 {i \in 1..Len(messages) :
                     \/ messages[i].sender = SystemSender
                     \/ messages[i].sender \in OnlineInContext(users)})

\* HumanA is online and HumanB is offline with messages of its own in a
\* timeline of more than MAX_CONTEXT_MESSAGES messages of HumanA and two
\* notices: the transcript is full, and starts with a message of HumanA.
C17_Witness ==
    /\ Returned({"build_prompt_context"})
    /\ OnlineInContext(call.arg.users) = {HumanA}
    /\ \E i \in 1..Len(call.arg.users) : call.arg.users[i].identity = HumanB
    /\ \E i \in 1..Len(call.arg.messages) : call.arg.messages[i].sender = HumanB
    /\ Cardinality({i \in 1..Len(call.arg.messages) :
                       call.arg.messages[i].sender = HumanA}) > MAX_CONTEXT_MESSAGES
    /\ Len(call.result.recent_messages) = MAX_CONTEXT_MESSAGES
    /\ call.result.chosen[1].sender = HumanA
    /\ call.result.chosen[MAX_CONTEXT_MESSAGES].sender = SystemSender

\* ------------------------------------------ delivery specification: liveness
\* The main loop never stops iterating, and for each bot the send_message
\* call does not fail for ever: an iteration in which the bot's send succeeds
\* happens again and again as long as it can.
SendSucceeds(b) == MainLoopDrain /\ Len(accepted'[b]) > Len(accepted[b])

DeliveryFairness ==
    /\ WF_vars(MainLoopDrain)
    /\ \A b \in Bots : SF_vars(SendSucceeds(b))

\* The bots that connect and are asked for replies in this specification.
LiveBots == {3}

NextDeliveryLive ==
    \/ \E b \in LiveBots : BotOnConnect(b)
    \/ \E b \in LiveBots : BotOnDisconnect(b)
    \/ /\ next_request < MaxLiveRequests
       /\ \E b \in LiveBots : request_bot_reply(b)
    \/ \E w \in workers : WorkerReplyOk(w)
    \/ MainLoopDrain

SpecDeliveryLive == Init /\ [][NextDeliveryLive]_vars /\ DeliveryFairness

\* C21: a send that failed is tried again on every later iteration, so every
\* reply that entered a bot's pending queue is sent in the end, provided the
\* main loop keeps iterating, the bot is online from some iteration on, and
\* the send call does not fail for ever.
C21_EventuallySent ==
    \A b \in Bots :
        <>[]online[b] => []<>(accepted[b] = enqueued[QueueKey(b)])

\* Two replies entered a bot's queue and both have been accepted.
C21_Witness ==
    \E b \in Bots :
        /\ online[b]
        /\ Len(enqueued[QueueKey(b)]) = 2
        /\ accepted[b] = enqueued[QueueKey(b)]
        /\ pending_ai_replies[QueueKey(b)] = <<>>

\* ------------------------------------------- claims on the chain counter
\* The step is one turn of `for message in new_messages`.
MessageTurn == loop_pc = "messages" /\ new_messages # <<>> /\ new_messages' = Tail(new_messages)

\* The message of the turn is remote, has text, and its sender is a known bot
\* identity or a human online in the snapshot of the iteration.
Qualifying(m) ==
    /\ m.id < SYSTEM_MESSAGE_ID_BASE
    /\ ~trim_is_empty(m.text)
    /\ m.sender \in bot_identities \cup online_human_identities

C22_Step ==
    /\ MessageTurn =>
          LET m == Head(new_messages)
          IN consecutive_ai_messages' =
                 IF ~Qualifying(m) THEN consecutive_ai_messages
                 ELSE IF m.sender \in bot_identities THEN consecutive_ai_messages + 1
                 ELSE 0
    /\ ~MessageTurn => consecutive_ai_messages' = consecutive_ai_messages

SkipSenders == {HumanA, HumanB}
SkipTexts == {TextOi, TextBlank}
SkipLiveBots == {1}

NextSkip ==
    \/ \E rows \in NamedTables({HumanA}) : SubscriptionApplied(rows)
    \/ /\ reconciled < MaxSkipReconciliations
       /\ loop_pc = "top"
       /\ \E rows \in NamedTables({HumanA}) : UserTableChanged(rows)
    \/ /\ reconciled < MaxSkipReconciliations
       /\ loop_pc = "top"
       /\ initialized_seen
       /\ Len(remote_message) < MaxSkipMessages
       /\ \E sender \in SkipSenders, text \in SkipTexts : MessageInserted(sender, text)
    \/ \E b \in SkipLiveBots : BotOnConnect(b)
    \/ \E seconds \in ClockSteps : now + seconds <= MaxClock /\ TimePasses(seconds)
    \/ SchedulerSnapshot
    \/ SchedulerMessage
    \/ SchedulerFinish

SpecSkip == Init /\ [][NextSkip]_vars

\* ---------------------------------------- claims on the skipped messages
\* No synthetic message is among the new messages of an iteration, and none
\* has moved last_seen_message_id or has been looked at by the scheduler.
C23_SyntheticUnseen ==
    /\ \A i \in 1..Len(new_messages) : new_messages[i].id < SYSTEM_MESSAGE_ID_BASE
    /\ last_seen_message_id < SYSTEM_MESSAGE_ID_BASE
    /\ decision.id < SYSTEM_MESSAGE_ID_BASE

C23_Step ==
    (MessageTurn /\ ~Qualifying(Head(new_messages))) =>
        /\ decision'.chosen = 0
        /\ decision'.kind = "skipped"
        /\ consecutive_ai_messages' = consecutive_ai_messages
        /\ last_chat_activity' = last_chat_activity
        /\ last_seen_message_id' = Max(last_seen_message_id, Head(new_messages).id)
        /\ UNCHANGED <<initialized_seen, bot_identities, online_human_identities,
                       last_proactive_attempt, proactive>>
        /\ UNCHANGED <<botVars, pipeVars, queueVars, sysVars, syncVars>>

\* C23: a new message that is synthetic, or has a blank text, or whose sender
\* is neither a known bot identity nor a human online in the snapshot, gets
\* no reply request and leaves the chain counter and the instant of the last
\* chat activity as they were; a synthetic message is not looked at at all,
\* and for a remote message of the other two kinds only
\* last_seen_message_id moves.
C23_SkippedMessages == []C23_SyntheticUnseen /\ [][C23_Step]_vars

\* After some chat activity and some time, a message of a human who is no
\* longer online has been passed over, with a notice in the timeline.
C23_Witness ==
    /\ decision.kind = "skipped"
    /\ decision.sender = HumanA
    /\ ~trim_is_empty(decision.text)
    /\ last_seen_message_id = decision.id
    /\ decision.id = 2
    /\ last_chat_activity > 0
    /\ now > last_chat_activity
    /\ \E i \in 1..Len(ui_messages) : ui_messages[i].id >= SYSTEM_MESSAGE_ID_BASE

\* ------------------------------------------ request specification: liveness
\* The service call of every request returns, with a reply or with an error.
WorkerReturns(n) ==
    \E w \in workers : w.id = n /\ (WorkerReplyOk(w) \/ WorkerReplyErr(w))

NextRequestLive ==
    \/ \E b \in LiveBots : BotOnConnect(b)
    \/ \E b \in LiveBots : BotOnDisconnect(b)
    \/ /\ next_request < MaxLiveRequests
       /\ \E b \in Bots : request_bot_reply(b)
    \/ \E w \in workers : WorkerReplyOk(w)
    \/ \E w \in workers : WorkerReplyErr(w)
    \/ MainLoopDrain

SpecRequestLive ==
    Init /\ [][NextRequestLive]_vars
         /\ \A n \in 1..MaxLiveRequests : WF_vars(WorkerReturns(n))

\* ------------------------------------------- claims on the requests
InFlight(n) == \E w \in workers : w.id = n

\* The replies sent on the channel so far: those still on it and those the
\* main loop has pushed on a queue.
RepliesSent ==
    [i \in 1..Len(ai_reply_rx) |-> ai_reply_rx[i].text]
        \o enqueued[ProfileName(1)] \o enqueued[ProfileName(2)] \o enqueued[ProfileName(3)]

ErrorNotices == SelectSeq(system_messages, IsErrorNotice)

\* Every request that is no longer in flight has left one outcome, and one
\* only: the outcomes are as many as the requests that returned, and the
\* reply of a request is on the channel or a queue at most once, for a request
\* that has returned.
C24_OneOutcome ==
    /\ Len(RepliesSent) + Len(ErrorNotices) = next_request - Cardinality(workers)
    /\ \A n \in 1..next_request :
           /\ SeqToBagCount(RepliesSent, ReplyText(n)) <= 1
           /\ InFlight(n) => SeqToBagCount(RepliesSent, ReplyText(n)) = 0

\* C24: every dispatched request runs to completion.  Provided the service
\* call returns, a request that is in flight leaves the workers in the end,
\* with exactly one outcome, a reply sent on the channel or a synthetic error
\* message, and no step of the client takes a request out of flight without
\* its outcome.
C24_RunsToCompletion ==
    /\ []C24_OneOutcome
    /\ \A n \in 1..MaxLiveRequests : InFlight(n) ~> ~InFlight(n)

\* Two requests were in flight together; both have returned, one with a reply
\* that the main loop has queued and one with an error notice.
C24_Witness ==
    /\ next_request = 2
    /\ workers = {}
    /\ Len(ErrorNotices) = 1
    /\ Len(RepliesSent) = 1
    /\ ai_reply_rx = <<>>

\* ------------------------------------------------ state mutex specification
\* request_bot_reply and the thread it spawns, one mutex operation at a time.
\* update_state is "lock" then "unlock": the closure runs between the two and
\* its writes show when the mutex is released.

\* request_bot_reply on the main thread: update_state, then thread::spawn.
RequestProgram == <<"lock", "unlock", "spawn">>

\* Mutant: the thread takes the mutex before the service call.
WorkerProgramCallUnderLock == <<"lock", "call", "unlock", "send">>

\* The spawned thread: fetch_ollama_reply, then update_state (Ok) or
\* add_local_system_message (Err), then reply_tx.send (Ok).
WorkerProgram == <<"call", "lock", "unlock", "send">>

\* The main thread enters request_bot_reply for bot b.
RequestEnter(b) ==
    /\ main_call.pc = 0
    /\ main_call' = [pc |-> 1, bot |-> b, history |-> <<>>]
    /\ UNCHANGED <<state_lock, threads>>
    /\ UNCHANGED <<botVars, pipeVars, queueVars, sysVars, syncVars, schedVars,
                   clockVars, uiVars, textVars, serverVars, observerVars, wireVars>>

\* One operation of request_bot_reply.
RequestStep ==
    /\ main_call.pc > 0
    /\ LET op == RequestProgram[main_call.pc]
           n == next_request + 1
           name == ProfileName(main_call.bot)
           after == IF main_call.pc = Len(RequestProgram) THEN 0 ELSE main_call.pc + 1
       IN CASE op = "lock" ->
                 /\ state_lock = FreeLock
                 /\ state_lock' = MainThread
                 /\ main_call' = [main_call EXCEPT !.pc = after]
                 /\ UNCHANGED <<threads, pipeVars>>
            [] op = "unlock" ->
                 LET history == trim_history(
                         Append(ai_histories[name],
                                [role |-> "User", content |-> IncomingText(n)]))
                 IN /\ state_lock = MainThread
                    /\ state_lock' = FreeLock
                    /\ ai_histories' = [ai_histories EXCEPT ![name] = history]
                    /\ main_call' = [main_call EXCEPT !.pc = after, !.history = history]
                    /\ UNCHANGED <<threads, next_request, workers, ai_reply_rx>>
            [] op = "spawn" ->
                 /\ next_request' = n
                 /\ workers' = workers \cup
                        {[id |-> n, bot_name |-> name, history |-> main_call.history]}
                 /\ threads' = Append(threads, [pc |-> 1, result |-> "none"])
                 /\ main_call' = NoMainCall
                 /\ UNCHANGED <<state_lock, ai_histories, ai_reply_rx>>
    /\ UNCHANGED <<botVars, queueVars, sysVars, syncVars, schedVars,
                   clockVars, uiVars, textVars, serverVars, observerVars, wireVars>>

Running(n) == n \in 1..Len(threads) /\ threads[n].pc <= Len(WorkerProgram)
InCall(n) == Running(n) /\ WorkerProgram[threads[n].pc] = "call"

\* One operation of the thread of request n.
WorkerStep(n) ==
    /\ Running(n)
    /\ LET op == WorkerProgram[threads[n].pc]
           w == CHOOSE x \in workers : x.id = n
           name == w.bot_name
           reply == ReplyText(n)
           next_pc == threads[n].pc + 1
           ends == next_pc > Len(WorkerProgram)
       IN /\ CASE op = "call" ->
                    /\ \E result \in {"ok", "err"} :
                          threads' = [threads EXCEPT ![n] =
                                         [pc |-> next_pc, result |-> result]]
                    /\ UNCHANGED <<state_lock, ai_histories, ai_reply_rx, sysVars>>
               [] op = "lock" ->
                    /\ state_lock = FreeLock
                    /\ state_lock' = n
                    /\ threads' = [threads EXCEPT ![n].pc = next_pc]
                    /\ UNCHANGED <<ai_histories, ai_reply_rx, sysVars>>
               [] op = "unlock" ->
                    /\ state_lock = n
                    /\ state_lock' = FreeLock
                    /\ threads' = [threads EXCEPT ![n].pc = next_pc]
                    /\ IF threads[n].result = "ok"
                       THEN /\ ai_histories' = [ai_histories EXCEPT ![name] =
                                   trim_history(Append(ai_histories[name],
                                       [role |-> "Assistant", content |-> reply]))]
                            /\ UNCHANGED sysVars
                       ELSE /\ add_local_system_message(SystemSender, ErrorText(name))
                            /\ UNCHANGED ai_histories
                    /\ UNCHANGED ai_reply_rx
               [] op = "send" ->
                    /\ ai_reply_rx' =
                           IF threads[n].result = "ok"
                           THEN Append(ai_reply_rx, [bot_name |-> ReplyTag(w), text |-> reply])
                           ELSE ai_reply_rx
                    /\ threads' = [threads EXCEPT ![n].pc = next_pc]
                    /\ UNCHANGED <<state_lock, ai_histories, sysVars>>
          /\ workers' = IF ends THEN workers \ {w} ELSE workers
    /\ UNCHANGED <<next_request, main_call>>
    /\ UNCHANGED <<botVars, queueVars, syncVars, schedVars, clockVars, uiVars, textVars, serverVars, observerVars, wireVars>>

NextLock ==
    \/ /\ next_request < MaxLockRequests
       /\ \E b \in Bots : RequestEnter(b)
    \/ RequestStep
    \/ \E n \in 1..Len(threads) : WorkerStep(n)
    \/ main_call.pc = 0 /\ MainLoopDrain

SpecLock == Init /\ [][NextLock]_vars

\* -------------------------------------------- claims on the state mutex
\* The mutex is free, or the thread that holds it is not waiting for
\* anything: its next operation can be done now.
LockGivenBack ==
    \/ state_lock = FreeLock
    \/ state_lock = MainThread /\ ENABLED RequestStep
    \/ \E n \in 1..Len(threads) :
           state_lock = n /\ ~InCall(n) /\ ENABLED WorkerStep(n)

\* C25: a thread never holds the state mutex while it is inside the service
\* call, and request_bot_reply goes on to its return without waiting for any
\* thread; so whatever number of service calls is in flight, the mutex is free
\* or is being given back by a holder that is not inside a call.
C25_NoLockInCall ==
    /\ \A n \in 1..Len(threads) : InCall(n) => state_lock # n
    /\ main_call.pc > 0 =>
           \/ ENABLED RequestStep
           \/ state_lock # FreeLock /\ state_lock # MainThread
    /\ LockGivenBack

\* The service call of request 1 is in flight while the thread of request 2,
\* its own call over, holds the mutex.
C25_Witness ==
    /\ InCall(1)
    /\ state_lock = 2
    /\ threads[2].result = "ok"

\* The service call of request 1 is in flight while the main thread, inside
\* request_bot_reply for the next request, holds the mutex.
C25_MainHoldsDuringCall ==
    /\ InCall(1)
    /\ state_lock = MainThread

\* -------------------------------------- connection state specification
\* Everything that runs beside the bots' callbacks: the table callbacks, the
\* scheduler, request_bot_reply and its threads, the delivery loop.  The
\* callbacks run one write at a time.

FrameLiveBots == {1, 2}
FrameEvents == next_request + Len(remote_message)

NextFrame ==
    \/ \E rows \in ChainTables : SubscriptionApplied(rows)
    \/ /\ initialized_seen
       /\ FrameEvents < MaxFrameEvents
       /\ \E sender \in {HumanA} : MessageInserted(sender, TextOi)
    \/ \E b \in FrameLiveBots : BotOnConnectIdentity(b)
    \/ \E b \in FrameLiveBots : BotOnConnectOnline(b)
    \/ \E b \in FrameLiveBots : BotOnDisconnectIdentity(b)
    \/ \E b \in FrameLiveBots : BotOnDisconnectOnline(b)
    \/ SchedulerSnapshot
    \/ SchedulerMessage
    \/ SchedulerFinish
    \/ /\ FrameEvents < MaxFrameEvents
       /\ \E b \in FrameLiveBots : request_bot_reply(b)
    \/ \E w \in workers : WorkerReplyOk(w)
    \/ \E w \in workers : WorkerReplyErr(w)
    \/ MainLoopDrain

SpecFrame == Init /\ [][NextFrame]_vars

\* ------------------------------------- claims on the connection state
\* The write of bot b's identity slot in this step, if any, is the first write
\* of b's on_connect or the first write of b's on_disconnect.
IdentityWrittenByOwnCallback(b) ==
    identity'[b] # identity[b] =>
        \/ /\ conn_pc[b] = "init" /\ conn_pc'[b] = "connecting"
           /\ identity'[b] = BotIdentity(b)
           /\ ~online[b]
        \/ /\ conn_pc[b] = "up" /\ conn_pc'[b] = "closing"
           /\ identity'[b] = None
           /\ online[b]

\* The write of bot b's online flag in this step, if any, is the last write of
\* b's on_connect or the last write of b's on_disconnect.
OnlineWrittenByOwnCallback(b) ==
    online'[b] # online[b] =>
        \/ /\ conn_pc[b] = "connecting" /\ conn_pc'[b] = "up"
           /\ online'[b]
           /\ identity[b] = BotIdentity(b)
        \/ /\ conn_pc[b] = "closing" /\ conn_pc'[b] = "closed"
           /\ ~online'[b]
           /\ identity[b] = None

\* A step of bot b's callbacks writes nothing of another bot.
OthersUntouched(b) ==
    conn_pc'[b] # conn_pc[b] =>
        \A o \in Bots \ {b} : /\ identity'[o] = identity[o]
                              /\ online'[o] = online[o]
                              /\ conn_pc'[o] = conn_pc[o]

C26_Step ==
    \A b \in Bots : /\ IdentityWrittenByOwnCallback(b)
                    /\ OnlineWrittenByOwnCallback(b)
                    /\ OthersUntouched(b)

\* C26: a bot's online flag and identity slot are written only by that bot's
\* own on_connect (identity set, then flag set) and on_disconnect (identity
\* cleared, then flag cleared); every other step leaves them as they are.
C26_OwnCallbacksOnly == [][C26_Step]_vars

\* Bot 1 has gone through both callbacks while bot 2 stays online, and a
\* thread's reply has been moved to a bot's queue by the delivery loop.
C26_Witness ==
    /\ conn_pc[1] = "closed" /\ ~online[1] /\ identity[1] = None
    /\ conn_pc[2] = "up" /\ online[2] /\ identity[2] = BotIdentity(2)
    /\ \E key \in DOMAIN enqueued : enqueued[key] # <<>>

\* The same, the scheduler having processed a message meanwhile.
C26_SchedulerRan ==
    /\ conn_pc[1] = "closed" /\ ~online[1] /\ identity[1] = None
    /\ conn_pc[2] = "up" /\ online[2] /\ identity[2] = BotIdentity(2)
    /\ decision.kind # "none"

\* --------------------------------------- repeated dispatch specification
\* The loop left idle long enough for two proactive conversations: the bots
\* connect as whole handlers, a human writes now and then, the threads reply
\* and the delivery loop empties the queues.
NextDispatch ==
    \/ \E rows \in ChainTables : SubscriptionApplied(rows)
    \/ /\ loop_pc = "top"
       /\ initialized_seen
       /\ Len(remote_message) < MaxProactiveMessages
       /\ MessageInserted(HumanA, TextOi)
    \/ \E b \in Bots : BotOnConnect(b)
    \/ \E w \in workers : WorkerReplyOk(w)
    \/ loop_pc = "top" /\ MainLoopDrain
    \/ \E seconds \in ClockSteps :
           now + seconds <= MaxDispatchClock /\ TimePasses(seconds)
    \/ SchedulerSnapshot
    \/ SchedulerMessage
    \/ SchedulerFinish

SpecDispatch == Init /\ [][NextDispatch]_vars

\* --------------------------------------- claims on the proactive dispatch
\* The step calls request_bot_reply.
Dispatches == next_request' # next_request

C27_Step ==
    /\ proactive' # proactive => Dispatches
    /\ Dispatches =>
           /\ proactive'.kind = "dispatched"
           /\ proactive'.starter \in Bots /\ proactive'.target \in Bots
           /\ proactive'.starter # proactive'.target
           /\ online[proactive'.starter] /\ online[proactive'.target]
           /\ next_request' = next_request + 1
           /\ \E w \in workers' :
                  /\ workers' = workers \cup {w}
                  /\ w \notin workers
                  /\ w.id = next_request'
                  /\ w.bot_name = ProfileName(proactive'.starter)
           /\ proactive'.at = now
           /\ last_chat_activity' = now
           /\ proactive.kind = "dispatched" =>
                  now - proactive.at >= AI_PROACTIVE_IDLE_SECS

EmptyReply == <<"v", "a", "z", "i", "a">>
TransportError == <<"h", "t", "t", "p">>

\* Mutant: the normalized reply is returned without the emptiness test.
fetch_ollama_reply_unchecked(response) ==
    [ok |-> TRUE, reply |-> normalize_reply(response), err |-> <<>>]

\* fetch_ollama_reply once send_chat_messages has returned Ok(response).
fetch_ollama_reply(response) ==
    LET reply == normalize_reply(response)
    IN IF reply = <<>>
       THEN [ok |-> FALSE, reply |-> <<>>, err |-> EmptyReply]
       ELSE [ok |-> TRUE, reply |-> reply, err |-> <<>>]

\* format!("Erro ao chamar Ollama ({}): {err}", bot.name)
ErrorNotice(name, err) == ErrorText(name) \o <<":", " ">> \o err

\* The spawned thread from the service's answer on: the match on the result
\* of fetch_ollama_reply.
WorkerFetched(w, response) ==
    /\ w \in workers
    /\ LET result == fetch_ollama_reply(response)
           name == w.bot_name
       IN IF result.ok
          THEN /\ ai_histories' = [ai_histories EXCEPT ![name] = trim_history(
                      Append(ai_histories[name],
                             [role |-> "Assistant", content |-> result.reply]))]
               /\ ai_reply_rx' = Append(ai_reply_rx,
                      [bot_name |-> ReplyTag(w), text |-> result.reply])
               /\ UNCHANGED sysVars
          ELSE /\ add_local_system_message(SystemSender, ErrorNotice(name, result.err))
               /\ UNCHANGED <<ai_histories, ai_reply_rx>>
    /\ workers' = workers \ {w}
    /\ UNCHANGED <<next_request, botVars, queueVars, syncVars, schedVars, auxVars>>

\* The spawned thread, send_chat_messages returned an error.
WorkerTransportErr(w) ==
    /\ w \in workers
    /\ add_local_system_message(SystemSender, ErrorNotice(w.bot_name, TransportError))
    /\ workers' = workers \ {w}
    /\ UNCHANGED <<next_request, ai_histories, ai_reply_rx, botVars, queueVars,
                   syncVars, schedVars, auxVars>>

ResponseAlphabet == {"a", " ", "\n"}
ServiceResponses == TextsOver(ResponseAlphabet, MaxResponseLen)
AnswerLiveBots == {3}

NextAnswer ==
    \/ \E b \in AnswerLiveBots : BotOnConnect(b)
    \/ /\ next_request < MaxAnswerRequests
       /\ \E b \in AnswerLiveBots : request_bot_reply(b)
    \/ \E w \in workers, response \in ServiceResponses : WorkerFetched(w, response)
    \/ \E w \in workers : WorkerTransportErr(w)
    \/ MainLoopDrain

SpecAnswer == Init /\ [][NextAnswer]_vars

\* ------------------------------------------- claims on the service answer
\* Every text on the channel, on a pending queue or handed to a connection.
TextsInPipeline ==
    {ai_reply_rx[i].text : i \in DOMAIN ai_reply_rx}
        \cup UNION {{pending_ai_replies[k][i] : i \in DOMAIN pending_ai_replies[k]} :
                       k \in DOMAIN pending_ai_replies}
        \cup UNION {{accepted[b][i] : i \in DOMAIN accepted[b]} : b \in Bots}

AssistantTurns ==
    UNION {{ai_histories[k][i].content :
                i \in {j \in DOMAIN ai_histories[k] : ai_histories[k][j].role = "Assistant"}} :
              k \in DOMAIN ai_histories}

C28_NoBlankReply ==
    \A text \in TextsInPipeline \cup AssistantTurns : ~trim_is_empty(text)

\* A thread that is handed an answer whose normalization is empty adds the
\* notice of the empty-reply error and nothing else.
C28_Step ==
    \A w \in workers, response \in ServiceResponses :
        (WorkerFetched(w, response) /\ normalize_reply(response) = <<>>) =>
            /\ ai_histories' = ai_histories
            /\ ai_reply_rx' = ai_reply_rx
            /\ Len(system_messages') = Len(system_messages) + 1
            /\ system_messages'[Len(system_messages')].text
                   = ErrorNotice(w.bot_name, EmptyReply)

\* C28: no Assistant turn of a history and no text on the channel, on a
\* pending queue or sent through a bot is empty or whitespace only; an answer
\* of the service that normalizes to the empty string makes the request fail
\* with the empty-reply error, which the thread reports as a system notice.
C28_EmptyReplyFails == []C28_NoBlankReply /\ [][C28_Step]_vars

\* One request got a blank answer and failed with the empty-reply notice, the
\* other got a real one, which was recorded and sent.
C28_Witness ==
    /\ \E i \in DOMAIN system_messages :
           system_messages[i].text = ErrorNotice(ProfileName(3), EmptyReply)
    /\ Cardinality(AssistantTurns) = 1
    /\ accepted[3] # <<>>
    /\ workers = {}

\* ------------------------------------------------ full log specification
\* The client after a long session: the log of local messages is at the cap or
\* a few entries short of it, and may have dropped entries already.  Presence
\* changes of two humans and failed reply requests add to it.
NearCapLog(n, dropped) ==
    [i \in 1..n |->
        [id |-> SYSTEM_MESSAGE_ID_BASE + dropped + i - 1, sender |-> SystemSender,
         text |-> ErrorText(ProfileName(1))]]

InitNearCap ==
    \E n \in (MAX_SYSTEM_MESSAGES - MaxCapMargin)..MAX_SYSTEM_MESSAGES :
        \E dropped \in {d \in {0, 1} : d = 0 \/ n = MAX_SYSTEM_MESSAGES} :
            /\ system_messages = NearCapLog(n, dropped)
            /\ ui_messages = NearCapLog(n, dropped)
            /\ next_system_message_id = n + dropped

InitCap ==
    /\ InitBots /\ InitPipeline /\ InitQueues /\ InitNearCap /\ InitSync /\ InitScheduler
    /\ InitClock /\ InitUi /\ InitLock /\ InitServer /\ InitObserver /\ InitText
    /\ remote_message = <<>>

\* Both humans have a row; each is online or not.
CapTables == {rows \in NamedTables({HumanA, HumanB}) : Cardinality(rows) = 2}
CapBots == {1}

NextCap ==
    \/ \E rows \in CapTables : SubscriptionApplied(rows)
    \/ /\ reconciled < MaxCapReconciliations
       /\ \E rows \in CapTables : UserTableChanged(rows)
    \/ /\ reconciled < MaxCapReconciliations
       /\ MessageInserted(HumanA, TextOi)
    \/ /\ next_request < MaxCapRequests
       /\ \E b \in CapBots : request_bot_reply(b)
    \/ \E w \in workers : WorkerReplyErr(w)

SpecCap == InitCap /\ [][NextCap]_vars

\* ------------------------------------------------ claims on the full log
IsSynthetic(m) == m.id >= SYSTEM_MESSAGE_ID_BASE

C29_Capped ==
    /\ Len(system_messages) <= MAX_SYSTEM_MESSAGES
    /\ SelectSeq(ui_messages, IsSynthetic) = system_messages

\* A step that adds entries leaves the newest entries of the old log followed
\* by every new one: what is missing is the head of the old log.
C29_Step ==
    LET added == next_system_message_id' - next_system_message_id
        length == Len(system_messages')
        kept == length - added
    IN /\ added >= 0
       /\ added = 0 => system_messages' = system_messages
       /\ added > 0 =>
              /\ length = Min(Len(system_messages) + added, MAX_SYSTEM_MESSAGES)
              /\ kept >= 0
              /\ SubSeq(system_messages', 1, kept)
                     = SubSeq(system_messages, Len(system_messages) - kept + 1,
                              Len(system_messages))
              /\ \A i \in 1..added :
                     system_messages'[kept + i].id
                         = SYSTEM_MESSAGE_ID_BASE + next_system_message_id + i - 1

\* C29: the log of local messages never holds more than MAX_SYSTEM_MESSAGES
\* entries; a reconciliation or an add_local_system_message that would take it
\* past the cap drops entries from its head, the oldest; and the synthetic
\* messages of the merged timeline are exactly the entries of the log.
C29_SystemLogCapped == []C29_Capped /\ [][C29_Step]_vars

\* The log is full, has dropped three entries or more, and ends with a
\* presence event.
C29_Witness ==
    /\ Len(system_messages) = MAX_SYSTEM_MESSAGES
    /\ system_messages[1].id >= SYSTEM_MESSAGE_ID_BASE + 3
    /\ system_messages[MAX_SYSTEM_MESSAGES].text # ErrorText(ProfileName(1))
    /\ Len(ui_messages) > MAX_SYSTEM_MESSAGES

\* One reconciliation took the log past the cap by two entries.
C29_TwoDropped ==
    /\ Len(system_messages) = MAX_SYSTEM_MESSAGES
    /\ system_messages[1].id = SYSTEM_MESSAGE_ID_BASE + 2
    /\ next_request = 0
    /\ reconciled = 2

\* ------------------------------------------- claims on the user list scroll
LastUser == Max(Len(ui_users) - 1, 0)

C30_InRange == users_scroll >= 0 /\ users_scroll <= LastUser

\* A reconciliation leaves the scroll position where it was when the new list
\* is long enough, and on the last user of the new list otherwise; a key moves
\* it by one step at most and entering the chat puts it on the first user.
C30_Step ==
    /\ reconciled' # reconciled =>
           users_scroll' = (IF users_scroll <= LastUser' THEN users_scroll ELSE LastUser')
    /\ reconciled' = reconciled =>
           \/ users_scroll' = users_scroll
           \/ users_scroll' = users_scroll - 1
           \/ users_scroll' = users_scroll + 1 /\ users_scroll' <= LastUser
           \/ users_scroll' = 0 /\ screen' = "Chat" /\ screen # "Chat"

\* C30: after every reconciliation and every key event users_scroll is at
\* most max(len(users) - 1, 0); a reconciliation that makes the list shorter
\* than the scroll position puts the position on the last user, and Down never
\* goes past the last user.
C30_ScrollInRange == []C30_InRange /\ [][C30_Step]_vars

\* In the chat, after a change of the user table, the list is scrolled to the
\* second of two users.
C30_Witness ==
    /\ screen = "Chat"
    /\ Len(ui_users) = 2
    /\ users_scroll = 1
    /\ reconciled >= 2

\* ------------------------------------------------------- bot profiles
FANTASY_NAMES ==
    <<<<"A", "e", "l", "r", "i", "c">>,
      <<"B", "r", "a", "n", "n", "a">>,
      <<"C", "e", "d", "r", "i", "c">>,
      <<"D", "a", "r", "i", "a", "n">>,
      <<"E", "l", "o", "w", "e", "n">>,
      <<"F", "a", "e", "l", "a", "r">>,
      <<"G", "a", "r", "e", "t", "h">>,
      <<"I", "s", "o", "l", "d", "e">>,
      <<"K", "a", "e", "l">>,
      <<"L", "y", "r", "i", "a">>,
      <<"M", "o", "r", "g", "a", "n", "a">>,
      <<"N", "i", "m", "u", "e">>,
      <<"O", "r", "i", "n">>,
      <<"R", "o", "w", "a", "n">>,
      <<"S", "e", "r", "a", "p", "h", "i", "n", "a">>,
      <<"T", "h", "o", "r", "i", "n">>,
      <<"V", "a", "l", "e", "n">>,
      <<"Y", "s", "o", "l", "d", "a">>>>

RPG_PROFESSIONS ==
    <<<<"M", "a", "g", "o">>,
      <<"G", "u", "e", "r", "r", "e", "i", "r", "o">>,
      <<"L", "a", "d", "i", "n", "o">>,
      <<"C", "l", "e", "r", "i", "g", "o">>,
      <<"R", "a", "n", "g", "e", "r">>,
      <<"B", "a", "r", "d", "o">>,
      <<"P", "a", "l", "a", "d", "i", "n", "o">>,
      <<"D", "r", "u", "i", "d", "a">>,
      <<"F", "e", "i", "t", "i", "c", "e", "i", "r", "o">>,
      <<"M", "o", "n", "g", "e">>>>

Digit(d) == <<"0", "1", "2", "3", "4", "5", "6", "7", "8", "9">>[d + 1]

\* format!("{}", n) for a usize.
RECURSIVE to_string(_)
to_string(n) == IF n < 10 THEN <<Digit(n)>> ELSE to_string(n \div 10) \o <<Digit(n % 10)>>

\* Mutant: the names of the second round and later get no suffix.
generate_bot_profiles_no_suffix(count, names_pool, choose) ==
    [k \in 1..count |->
        [name |-> names_pool[((k - 1) % Len(names_pool)) + 1],
         profession |-> RPG_PROFESSIONS[choose[k]]]]

\* generate_bot_profiles(count).  names_pool is FANTASY_NAMES after the
\* shuffle and choose[k] is the place in RPG_PROFESSIONS that choose(&mut rng)
\* draws for the k-th bot; i is the index the closure gets.
generate_bot_profiles(count, names_pool, choose) ==
    IF count = 0 THEN <<>>
    ELSE [k \in 1..count |->
            LET i == k - 1
                base_name == names_pool[(i % Len(names_pool)) + 1]
            IN [name |-> IF i < Len(names_pool) THEN base_name
                         ELSE base_name \o <<"-">> \o to_string((i \div Len(names_pool)) + 1),
                profession |-> RPG_PROFESSIONS[choose[k]]]]

\* ------------------------------------------- bot profile specification
\* Outcomes of the shuffle: the pool turned by r places, read forwards or
\* backwards.
ShuffledPool(r, forwards) ==
    LET n == Len(FANTASY_NAMES)
    IN [k \in 1..n |->
           FANTASY_NAMES[(IF forwards THEN (r + k - 1) % n ELSE (r + n - k) % n) + 1]]

\* Outcomes of the profession draws: from a first one on, in steps.
ProfessionDraws(count, first, step) ==
    [k \in 1..count |-> ((first + (k - 1) * step) % Len(RPG_PROFESSIONS)) + 1]

ProfileCalls ==
    {Called("generate_bot_profiles",
            [count |-> count, names_pool |-> ShuffledPool(r, forwards),
             choose |-> ProfessionDraws(count, first, step)], 0) :
        count \in 0..MaxProfileCount, r \in {0, 5, 17}, forwards \in BOOLEAN,
        first \in {0, 3}, step \in {0, 7}}

InitProfiles == InitProgram /\ remote_message = <<>> /\ call \in ProfileCalls

CallGenerateBotProfiles ==
    /\ call.fn = "generate_bot_profiles"
    /\ Returns(generate_bot_profiles(call.arg.count, call.arg.names_pool, call.arg.choose))

NextProfiles == CallGenerateBotProfiles

SpecProfiles == InitProfiles /\ [][NextProfiles]_vars

\* ------------------------------------------- claims on the bot profiles
IsDigits(s) == s # <<>> /\ \A i \in 1..Len(s) : \E d \in 0..9 : s[i] = Digit(d)

\* A pool name, or a pool name, a hyphen and a number.
PoolNameWithSuffix(name) ==
    \E k \in 1..Len(FANTASY_NAMES) :
        LET base == FANTASY_NAMES[k]
        IN \/ name = base
           \/ /\ IsPrefix(base \o <<"-">>, name)
              /\ IsDigits(SubSeq(name, Len(base) + 2, Len(name)))

\* C31: generate_bot_profiles(count) returns count profiles; every name is a
\* name of the pool, with or without a "-<n>" suffix, every profession is one
\* of the profession pool, and no two profiles have the same name.
C31_BotProfiles ==
    Returned({"generate_bot_profiles"}) =>
        LET profiles == call.result
        IN /\ Len(profiles) = call.arg.count
           /\ \A k \in 1..Len(profiles) :
                  /\ PoolNameWithSuffix(profiles[k].name)
                  /\ InSeq(profiles[k].profession, RPG_PROFESSIONS)
           /\ \A j, k \in 1..Len(profiles) :
                  j # k => profiles[j].name # profiles[k].name

\* More profiles than twice the pool were asked for: the last name carries
\* the suffix of the third round.
C31_Witness ==
    /\ Returned({"generate_bot_profiles"})
    /\ call.arg.count > 2 * Len(FANTASY_NAMES)
    /\ LET last == call.result[call.arg.count].name
       IN SubSeq(last, Len(last) - 1, Len(last)) = <<"-", "3">>

\* ----------------------------------------------------------- the server
\* The reducers of the server module; each one is a transaction.  The message
\* table is remote_message.
Anonimo == <<"A", "n", "o", "n", "i", "m", "o">>

\* ctx.db.user().identity().find(id)
FindUser(id) == {r \in server_user : r.identity = id}

\* ctx.db.user().identity().update(user)
UpdateUser(user) == {r \in server_user : r.identity # user.identity} \cup {user}

Connected(id) == id \in DOMAIN connections /\ connections[id] > 0
ConnectionsOf(id) == IF id \in DOMAIN connections THEN connections[id] ELSE 0
SetConnections(id, n) == (id :> n) @@ connections

ClientVars == <<botVars, pipeVars, queueVars, sysVars, schedVars, clockVars, uiVars,
                textVars, lockVars, observerVars>>
CacheVars == <<subscribed, db_user, db_message, ui_users, users_presence_initialized,
               users_scroll, reconciled>>

\* Mutant: a returning identity keeps the flag it had.
identity_connected_keeps_online(id) ==
    /\ ConnectionsOf(id) < MaxConnections
    /\ server_user' =
           IF FindUser(id) = {}
           THEN server_user \cup {[identity |-> id, name |-> Anonimo, online |-> FALSE]}
           ELSE server_user
    /\ connections' = SetConnections(id, ConnectionsOf(id) + 1)
    /\ named' = named \ {id}
    /\ UNCHANGED <<remote_message, CacheVars, ClientVars, wireVars>>

\* identity_connected, the client_connected reducer, with ctx.sender = id.
identity_connected(id) ==
    /\ ConnectionsOf(id) < MaxConnections
    /\ server_user' =
           IF FindUser(id) = {}
           THEN server_user \cup {[identity |-> id, name |-> Anonimo, online |-> FALSE]}
           ELSE LET user == CHOOSE r \in FindUser(id) : TRUE
                IN UpdateUser([user EXCEPT !.online = FALSE])
    /\ connections' = SetConnections(id, ConnectionsOf(id) + 1)
    /\ named' = named \ {id}
    /\ UNCHANGED <<remote_message, CacheVars, ClientVars, wireVars>>

\* identity_disconnected, the client_disconnected reducer.
identity_disconnected(id) ==
    /\ Connected(id)
    /\ server_user' =
           IF FindUser(id) = {} THEN server_user
           ELSE LET user == CHOOSE r \in FindUser(id) : TRUE
                IN UpdateUser([user EXCEPT !.online = FALSE])
    /\ connections' = SetConnections(id, connections[id] - 1)
    /\ UNCHANGED <<named, remote_message, CacheVars, ClientVars, wireVars>>

\* set_name(ctx, new_name), called through a connection of id.
set_name(id, new_name) ==
    /\ Connected(id)
    /\ LET cleaned == trim(new_name)
       IN IF cleaned = <<>> THEN UNCHANGED <<server_user, named>>
          ELSE IF FindUser(id) = {} THEN UNCHANGED <<server_user, named>>
          ELSE LET user == CHOOSE r \in FindUser(id) : TRUE
               IN /\ server_user' =
                         UpdateUser([user EXCEPT !.name = cleaned, !.online = TRUE])
                  /\ named' = named \cup {id}
    /\ UNCHANGED <<connections, remote_message, CacheVars, ClientVars, wireVars>>

\* Mutant: the sender's row is not looked at.
send_message_any_sender(id, text) ==
    /\ Connected(id)
    /\ remote_message' =
           IF trim_is_empty(text) THEN remote_message
           ELSE Append(remote_message,
                       [id |-> Len(remote_message) + 1, sender |-> id, text |-> text])
    /\ UNCHANGED <<serverVars, CacheVars, ClientVars>>

\* send_message(ctx, text), called through a connection of id; the auto_inc
\* id is the next one.
send_message(id, text) ==
    /\ Connected(id)
    /\ remote_message' =
           IF \A user \in FindUser(id) : ~user.online THEN remote_message
           ELSE IF trim_is_empty(text) THEN remote_message
           ELSE Append(remote_message,
                       [id |-> Len(remote_message) + 1, sender |-> id, text |-> text])
    /\ UNCHANGED <<serverVars, CacheVars, ClientVars>>

\* ------------------------------------------------- server specification
ServerIdentities == {HumanA, BotIdentity(1)}
NamePadded == <<" ", "A", "n", "a", " ">>
ServerNames == {NamePadded, NameBlank, <<>>}
ServerTexts == {TextOi, TextBlank, <<>>}

NextServer ==
    \/ \E id \in ServerIdentities : identity_connected(id)
    \/ \E id \in ServerIdentities : identity_disconnected(id)
    \/ \E id \in ServerIdentities, name \in ServerNames : set_name(id, name)
    \/ /\ Len(remote_message) < MaxServerMessages
       /\ \E id \in ServerIdentities, text \in ServerTexts : send_message(id, text)
       /\ UNCHANGED wireVars

SpecServer == Init /\ [][NextServer]_vars

\* ------------------------------------------------- claims on the server
OnlineOnServer(id) == \E user \in FindUser(id) : user.online

C32_Stored == \A i \in DOMAIN remote_message : ~trim_is_empty(remote_message[i].text)

\* A step that changes the message table adds one row, with a text that is
\* not blank and a sender whose row is online; a send_message call of a
\* sender without an online row, or with a blank text, adds none.
C32_Step ==
    /\ remote_message' # remote_message =>
           /\ Len(remote_message') = Len(remote_message) + 1
           /\ SubSeq(remote_message', 1, Len(remote_message)) = remote_message
           /\ LET row == remote_message'[Len(remote_message')]
              IN /\ OnlineOnServer(row.sender)
                 /\ ~trim_is_empty(row.text)
                 /\ row.id = Len(remote_message')
    /\ \A id \in ServerIdentities, text \in ServerTexts :
           (send_message(id, text) /\ (~OnlineOnServer(id) \/ trim_is_empty(text)))
               => remote_message' = remote_message

\* C32: send_message inserts a row only for a caller whose user row is online
\* and a text that is not blank after trimming; any other call leaves the
\* message table as it was, so every stored text is non-blank and every sender
\* was online when its message was stored.
C32_SendMessageGuard == []C32_Stored /\ [][C32_Step]_vars

\* A message is stored and its sender has disconnected since.
C32_Witness ==
    /\ Len(remote_message) = 1
    /\ ~OnlineOnServer(remote_message[1].sender)
    /\ \E id \in ServerIdentities : Connected(id) /\ ~OnlineOnServer(id)

\* A user row is online only when its identity set a name since it last
\* connected, and the name of an online row is a trimmed, non-empty one.
C33_Named ==
    \A user \in server_user :
        user.online => /\ user.identity \in named
                       /\ user.name # <<>> /\ trim(user.name) = user.name

C33_Step ==
    /\ \A id \in ServerIdentities :
           (identity_connected(id) \/ identity_disconnected(id)) => ~OnlineOnServer(id)'
    /\ \A id \in ServerIdentities, name \in ServerNames :
           (set_name(id, name) /\ trim_is_empty(name)) => server_user' = server_user

\* C33: a user row is online only if its identity called set_name with a name
\* that is not blank since its latest client_connected; client_connected and
\* client_disconnected leave the row offline, and set_name with a blank name
\* changes nothing.
C33_OnlineOnlyAfterName == []C33_Named /\ [][C33_Step]_vars

\* An identity holds two connections and is online: it has named itself
\* after the second one was opened.
C33_Witness ==
    /\ ConnectionsOf(HumanA) = 2
    /\ OnlineOnServer(HumanA)
    /\ HumanA \in named
    /\ \E user \in FindUser(HumanA) : user.name = NameAna

\* ------------------------------------------- claims on entering the chat
Enter == Key("Enter")
InChooseName == popup = "ChooseName"

\* The screen goes from the menu to the chat only in a step of Enter in the
\* ChooseName popup, the input not blank and set_name accepted.  With the
\* state mutex in good state, Enter on a blank input clears the input and
\* nothing else, and Enter with a refused set_name leaves screen and popup and
\* sets status to false.
C34_Step ==
    /\ (screen = "MainMenu" /\ screen' = "Chat") =>
           /\ InChooseName
           /\ trim(input) # <<>>
           /\ HandleKeyEvent(Enter, TRUE)
           /\ popup' = "None"
    /\ \A reducer_ok \in BOOLEAN :
           (HandleKeyEvent(Enter, reducer_ok) /\ InChooseName /\ ~poisoned) =>
               /\ trim(input) = <<>> =>
                      UiNow' = [UiNow EXCEPT !.input = <<>>]
               /\ (trim(input) # <<>> /\ ~reducer_ok) =>
                      /\ screen' = screen
                      /\ popup' = popup
                      /\ status' = FALSE

\* C34: the screen changes from MainMenu to Chat only when Enter is pressed
\* in the ChooseName popup with an input that is not blank and set_name
\* succeeds; on a blank input only the input is cleared; when set_name fails
\* screen and popup stay and status becomes false.
C34_EnterChat == [][C34_Step]_vars

\* The chat was entered.
C34_Witness ==
    /\ screen = "Chat"
    /\ popup = "None"
    /\ input = <<>>
    /\ ~should_quit

\* set_name was refused: the popup is still open over the menu, the
\* connection is marked as down.
C34_Refused ==
    /\ subscribed
    /\ screen = "MainMenu"
    /\ InChooseName
    /\ ~status
    /\ ~poisoned

\* ------------------------------------------------ room specification
\* The server's reducers, the cache of the human connection and the
\* scheduler in one loop: a bot's connection reaches the server before its
\* on_connect runs, the calls of one connection are executed in the order
\* they were issued, and the cache follows the tables with any delay.
AuthoredByBot(id) == \E b \in Bots : id = BotIdentity(b)

\* One turn of the for loop, observed: the id it went through, and the
\* requests made for bot messages without a mention since the last message
\* of a human that counted.
ObservedMessage ==
    /\ ProcessMessage
    /\ visited' = Append(visited, decision'.id)
    /\ chance_replies' =
           IF decision'.kind # "processed" THEN chance_replies
           ELSE IF ~AuthoredByBot(decision'.sender) THEN 0
           ELSE IF decision'.directed = 0 /\ decision'.chosen # 0
           THEN chance_replies + 1
           ELSE chance_replies

\* on_insert of the message table: the next row of the server's table
\* reaches the cache.
MessageRowInserted ==
    /\ subscribed
    /\ Len(db_message) < Len(remote_message)
    /\ LET row == remote_message[Len(db_message) + 1]
       IN /\ db_message' = Append(db_message, row)
          /\ sync_from_tables(db_user, Append(db_message, row))
    /\ UNCHANGED <<remote_message, subscribed, db_user>>
    /\ UNCHANGED <<botVars, pipeVars, queueVars, schedVars, auxVars>>

RoomLiveBots == {1}
CanReconcileRoom == reconciled < MaxRoomReconciliations

\* The transport of bot b is accepted by the server.
RoomBotConnected(b) ==
    /\ conn_pc[b] = "init"
    /\ ~Connected(BotIdentity(b))
    /\ identity_connected(BotIdentity(b))

\* The set_name call of on_connect is executed.
RoomBotSetName(b) ==
    /\ conn_pc[b] # "init"
    /\ BotIdentity(b) \notin named
    /\ set_name(BotIdentity(b), ProfileName(b))

\* A send_message call of the delivery loop is executed; it was issued
\* after set_name, on the same connection.
RoomBotSendMessage(b) ==
    /\ conn_pc[b] \notin {"init", "connecting"}
    /\ BotIdentity(b) \in named
    /\ send_message(BotIdentity(b), TextOi)
    /\ UNCHANGED wireVars

\* The server sees the transport of bot b go.
RoomBotDisconnected(b) ==
    /\ conn_pc[b] # "init"
    /\ identity_disconnected(BotIdentity(b))

\* The human has connected and chosen a name (identity_connected, then
\* set_name); the subscription is not applied yet and no bot has connected.
InitRoom ==
    /\ InitBots /\ InitPipeline /\ InitQueues /\ InitSystem /\ InitSync /\ InitScheduler
    /\ InitClock /\ InitUi /\ InitLock /\ InitObserver /\ InitText
    /\ remote_message = <<>>
    /\ server_user = {[identity |-> HumanA, name |-> NameAna, online |-> TRUE]}
    /\ connections = (HumanA :> 1)
    /\ named = {HumanA}

NextRoom ==
    \/ /\ Len(remote_message) < MaxRoomMessages
       /\ send_message(HumanA, TextOi)
       /\ UNCHANGED wireVars
    \/ SubscriptionApplied(server_user)
    \/ CanReconcileRoom /\ UserTableChanged(server_user)
    \/ CanReconcileRoom /\ MessageRowInserted
    \/ \E b \in RoomLiveBots : RoomBotConnected(b)
    \/ \E b \in RoomLiveBots : Connected(BotIdentity(b)) /\ BotOnConnectIdentity(b)
    \/ \E b \in RoomLiveBots : BotOnConnectOnline(b)
    \/ \E b \in RoomLiveBots : RoomBotSetName(b)
    \/ /\ Len(remote_message) < MaxRoomMessages
       /\ \E b \in RoomLiveBots : RoomBotSendMessage(b)
    \/ \E b \in RoomLiveBots : RoomBotDisconnected(b)
    \/ \E b \in RoomLiveBots : BotOnDisconnectIdentity(b)
    \/ \E b \in RoomLiveBots : BotOnDisconnectOnline(b)
    \/ SchedulerSnapshot
    \/ ObservedMessage
    \/ SchedulerFinish

SpecRoom == InitRoom /\ [][NextRoom]_vars

\* C37: a message written through a bot's connection is never taken for a
\* human's: when the for loop gets to it, it is counted as a bot message
\* (the counter is not put back to zero, the choice of a responder is the
\* gated one), and no bot's row is among the online humans of an iteration.
C37_Step ==
    (ProcessMessage /\ AuthoredByBot(decision'.sender)) =>
        /\ decision'.ai
        /\ decision'.kind = "processed" => decision'.chain = decision'.before + 1
C37_NoBotAmongHumans == \A id \in online_human_identities : ~AuthoredByBot(id)
C37_BotNeverHuman == []C37_NoBotAmongHumans /\ [][C37_Step]_vars

\* C36: last_seen_message_id never goes down, and no message id gets a
\* second turn of the for loop, in the same iteration or in a later one,
\* however long the message stays in the snapshots: a turn takes an id above
\* last_seen_message_id that no turn took before, leaves last_seen_message_id
\* at or above it, and calls request_bot_reply at most once (decision.chosen).
C36_Step ==
    /\ last_seen_message_id' >= last_seen_message_id
    /\ ProcessMessage =>
           /\ decision'.id > last_seen_message_id
           /\ decision'.id <= last_seen_message_id'
           /\ \A i \in DOMAIN visited : visited[i] # decision'.id
C36_VisitedOnce == \A i, j \in DOMAIN visited : i # j => visited[i] # visited[j]
C36_AtMostOnce == []C36_VisitedOnce /\ [][C36_Step]_vars
\* Two messages had their turn, both are still in the snapshot of a later
\* iteration, and that iteration found nothing new.
C36_Witness ==
    /\ Len(visited) >= 2
    /\ loop_pc = "messages"
    /\ new_messages = <<>>
    /\ \A i \in DOMAIN visited : visited[i] \in RemoteIds(ui_messages) \ preexisting
    /\ last_seen_message_id = MaxOf(RemoteIds(ui_messages))

\* ------------------------------------- room specification: long chains
\* The room with bots that write one after the other.  The bots connect one
\* by one, as whole handlers, before the subscription is applied; the cache
\* is brought up to date before anything else goes on, and the bots write
\* between two iterations of the loop.  Only the on_disconnect of bot 1 is
\* taken apart.  SpecRoom has the other interleavings.
RunawayLiveBots == {1, 2}
RunawayWriters == {1, 2}
CacheCurrent ==
    subscribed => db_user = server_user /\ Len(db_message) = Len(remote_message)
EarlierBotsNamed(b) == \A c \in RunawayLiveBots : c < b => BotIdentity(c) \in named
AllBotsNamed == \A b \in RunawayLiveBots : BotIdentity(b) \in named

NextRunaway ==
    \/ AllBotsNamed /\ SubscriptionApplied(server_user)
    \/ reconciled < MaxRunawayReconciliations /\ UserTableChanged(server_user)
    \/ reconciled < MaxRunawayReconciliations /\ MessageRowInserted
    \/ \E b \in RunawayLiveBots : EarlierBotsNamed(b) /\ RoomBotConnected(b)
    \/ \E b \in RunawayLiveBots : Connected(BotIdentity(b)) /\ BotOnConnect(b)
    \/ \E b \in RunawayLiveBots : online[b] /\ RoomBotSetName(b)
    \/ /\ CacheCurrent
       /\ loop_pc = "top"
       /\ initialized_seen
       /\ Len(remote_message) < MaxRunawayMessages
       /\ \E b \in RunawayWriters : conn_pc[b] = "up" /\ RoomBotSendMessage(b)
    \/ subscribed /\ CacheCurrent /\ BotOnDisconnectIdentity(1)
    \/ CacheCurrent /\ BotOnDisconnectOnline(1)
    \/ CacheCurrent /\ conn_pc[1] # "up" /\ RoomBotDisconnected(1)
    \/ subscribed /\ CacheCurrent /\ SchedulerSnapshot
    \/ CacheCurrent /\ ObservedMessage
    \/ CacheCurrent /\ SchedulerFinish

SpecRunaway == InitRoom /\ [][NextRunaway]_vars

\* C35: the bots cannot keep one another talking: between two messages of
\* humans that counted (or with no such message at all) fewer than
\* MAX_AI_CHAIN_MESSAGES requests are made for bot messages that name no
\* bot, and a counter that has reached the cap goes below it only in the
\* turn of a human's message.
C35_Bound == chance_replies <= MAX_AI_CHAIN_MESSAGES - 1
C35_Step ==
    (consecutive_ai_messages >= MAX_AI_CHAIN_MESSAGES
        /\ consecutive_ai_messages' < MAX_AI_CHAIN_MESSAGES) =>
            /\ ProcessMessage
            /\ decision'.kind = "processed"
            /\ ~AuthoredByBot(decision'.sender)
C35_BoundedChain == []C35_Bound /\ [][C35_Step]_vars

\* --------------------------------------- claims on the order of replies
\* The replies recorded as Assistant turns of a bot, oldest first.
AssistantTurnsOf(name) ==
    LET turns == SelectSeq(ai_histories[name], LAMBDA e : e.role = "Assistant")
    IN [i \in 1..Len(turns) |-> turns[i].content]

\* The replies of a bot in the order they were sent on the channel: those
\* the main loop has queued already, then those still on the channel.
SentReplies(name) ==
    LET waiting == SelectSeq(ai_reply_rx, LAMBDA r : r.bot_name = name)
    IN enqueued[name] \o [i \in 1..Len(waiting) |-> waiting[i].text]

\* C38: for every bot the replies go out on the channel, and into the
\* bot's queue, in the order of their Assistant turns in the history.
C38_SameOrder ==
    \A name \in BotNames :
        LET sent == SentReplies(name)
        IN sent = SelectSeq(AssistantTurnsOf(name), LAMBDA t : t \in Range(sent))

\* C39: the history a thread hands to the service ends with the User turn
\* of its own request and has at most MAX_HISTORY_ENTRIES entries, whatever
\* other requests and threads of the same bot have done.
C39_Snapshot ==
    \A w \in workers :
        /\ Len(w.history) <= MAX_HISTORY_ENTRIES
        /\ w.history # <<>>
        /\ w.history[Len(w.history)] = [role |-> "User", content |-> IncomingText(w.id)]
\* A thread with a full snapshot that holds replies of earlier threads and
\* has lost the oldest turn.
C39_Witness ==
    \E w \in workers :
        /\ Len(w.history) = MAX_HISTORY_ENTRIES
        /\ \E i \in DOMAIN w.history : w.history[i].role = "Assistant"
        /\ w.history[1].content # IncomingText(1)
\* Two threads of the same bot at once, the later one with a full snapshot.
C39_TwoThreads ==
    \E w, v \in workers :
        /\ v.id < w.id
        /\ v.bot_name = w.bot_name
        /\ Len(w.history) = MAX_HISTORY_ENTRIES

\* ------------------------------------ delivery to the server specification
\* One bot from its connection to the rows of its replies: the pipeline and
\* the drain step on the client, the reducers on the server, and between
\* them the calls of the bot's connection, which the server executes in
\* the order they were issued for as long as the connection is there.
EndBots == {3}

\* The server executes the next send_message call of bot b's connection;
\* set_name, issued before it, was executed before it.
ServerTakesCall(b) ==
    /\ executed[b] < Len(accepted[b])
    /\ BotIdentity(b) \in named
    /\ send_message(BotIdentity(b), accepted[b][executed[b] + 1])
    /\ executed' = [executed EXCEPT ![b] = executed[b] + 1]

NextEndToEnd ==
    \/ \E b \in EndBots : RoomBotConnected(b)
    \/ \E b \in EndBots : Connected(BotIdentity(b)) /\ BotOnConnect(b)
    \/ \E b \in EndBots : RoomBotSetName(b)
    \/ /\ next_request < MaxEndRequests
       /\ \E b \in EndBots : request_bot_reply(b)
    \/ \E w \in workers : WorkerReplyOk(w)
    \/ MainLoopDrain
    \/ \E b \in EndBots : ServerTakesCall(b)
    \/ \E b \in EndBots : RoomBotDisconnected(b)
    \/ \E b \in EndBots : BotOnDisconnect(b)

\* The main loop keeps turning, a send that can succeed again and again
\* does, the threads return, and the server executes the calls it holds.
EndToEndFairness ==
    /\ DeliveryFairness
    /\ \A n \in 1..MaxEndRequests :
           WF_vars(\E w \in workers : w.id = n /\ WorkerReplyOk(w))
    /\ \A b \in EndBots : WF_vars(RoomBotSetName(b))
    /\ \A b \in EndBots : WF_vars(ServerTakesCall(b))

SpecEndToEnd == Init /\ [][NextEndToEnd]_vars /\ EndToEndFairness

\* The i-th reply the drain step took from bot b's queue is a row of the
\* message table, with the bot's identity as sender.
StoredReply(b, i) ==
    /\ Len(accepted[b]) >= i
    /\ \E k \in DOMAIN remote_message :
           /\ remote_message[k].sender = BotIdentity(b)
           /\ remote_message[k].text = accepted[b][i]

\* C40: every reply the drain step takes from a bot's queue becomes a row of
\* the message table written by that bot.
C40_EndToEnd ==
    \A b \in EndBots : \A i \in 1..MaxEndRequests :
        (Len(accepted[b]) >= i) ~> StoredReply(b, i)
\* A reply was taken from the queue, is not a row and is not on its way:
\* the bot's connection is gone on the server.
C40_Lost ==
    \E b \in EndBots : \E i \in DOMAIN accepted[b] :
        /\ ~StoredReply(b, i)
        /\ ~Connected(BotIdentity(b))

====
